---- MODULE Spec2Model ----
(***************************************************************************)
(* Model of the agent core of the manager (framework/wazuh/core/           *)
(* core_agent.py): the remote upgrade protocol engine (Agent.upgrade,      *)
(* Agent.upgrade_custom, Agent.upgrade_result and their helpers).          *)
(*                                                                         *)
(* Strings whose content the code inspects (socket responses, digests,     *)
(* agent ids) are sequences of characters, so that startswith, split,      *)
(* replace, zfill and int are computed as the code computes them.          *)
(***************************************************************************)
EXTENDS Integers, Sequences, FiniteSets, TLC

\* ------------------------------------------------------------------ bounds
\* Longest package file, in bytes.
MaxLen == 3
\* Largest chunk size a caller passes.
MaxChunk == 2
\* Largest retry budget a caller passes (timeout parameter).
MaxRetries == 2
\* common.limit_seconds, scaled down: the heartbeat freshness threshold.
limit_seconds == 3
\* The time of the call (today), in seconds.
Now == 10

\* --------------------------------------------------------------- strings
OK == <<"o", "k">>
OKSP == <<"o", "k", " ">>
ERR == <<"e", "r", "r">>
ERRSP == <<"e", "r", "r", " ">>
OK0 == <<"o", "k", " ", "0">>
OK2 == <<"o", "k", " ", "2">>

\* str.startswith
StartsWith(s, p) == Len(s) >= Len(p) /\ SubSeq(s, 1, Len(p)) = p

\* str.replace("err ", ""): every occurrence removed, scanning left to right
RECURSIVE ReplaceErr(_)
ReplaceErr(s) ==
  IF s = <<>> THEN <<>>
  ELSE IF StartsWith(s, ERRSP) THEN ReplaceErr(SubSeq(s, Len(ERRSP) + 1, Len(s)))
  ELSE <<Head(s)>> \o ReplaceErr(Tail(s))

\* the characters of s before its first space (all of s when it has none)
RECURSIVE UpToSpace(_)
UpToSpace(s) ==
  IF s = <<>> \/ Head(s) = " " THEN <<>> ELSE <<Head(s)>> \o UpToSpace(Tail(s))

\* s after its first space (empty when it has none)
RECURSIVE AfterSpace(_)
AfterSpace(s) ==
  IF s = <<>> THEN <<>> ELSE IF Head(s) = " " THEN Tail(s) ELSE AfterSpace(Tail(s))

\* data.split(' ')[1], for data that holds a space
SplitSecond(data) == UpToSpace(AfterSpace(data))

\* ------------------------------------------------------------- agent ids
\* An id is the string the caller built the Agent with: a sequence of digits.
DigitChars == <<"0", "1", "2", "3", "4", "5", "6", "7", "8", "9">>

DigitVal(c) == (CHOOSE i \in 1..Len(DigitChars) : DigitChars[i] = c) - 1

\* int(self.id)
RECURSIVE IntOf(_)
IntOf(s) == IF s = <<>> THEN 0 ELSE IntOf(SubSeq(s, 1, Len(s) - 1)) * 10 + DigitVal(s[Len(s)])

\* str(n)
RECURSIVE StrOf(_)
StrOf(n) == IF n < 10 THEN <<DigitChars[n + 1]>> ELSE StrOf(n \div 10) \o <<DigitChars[(n % 10) + 1]>>

\* str(self.id).zfill(3)
RECURSIVE zfill3(_)
zfill3(s) == IF Len(s) >= 3 THEN s ELSE zfill3(<<"0">> \o s)

ManagerId == <<"0", "0", "0">>

\* -------------------------------------------------------------- versions
\* A version is <<major, minor, patch, release>>; release is 0 for a
\* pre-release such as 3.0.0-alpha4 and 1 for a final release. <<>> is None.
NoVersion == <<>>
V290 == <<2, 9, 0, 1>>
V300a4 == <<3, 0, 0, 0>>
V340 == <<3, 4, 0, 1>>
V360 == <<3, 6, 0, 1>>
V3100 == <<3, 10, 0, 1>>
V400 == <<4, 0, 0, 1>>

\* WazuhVersion.__lt__
RECURSIVE VerLt(_, _)
VerLt(a, b) ==
  IF a = <<>> \/ b = <<>> THEN FALSE
  ELSE IF Head(a) # Head(b) THEN Head(a) < Head(b)
  ELSE VerLt(Tail(a), Tail(b))

\* WazuhVersion.__ge__
VerGe(a, b) == ~VerLt(a, b)

\* WazuhVersion.__eq__
VerEq(a, b) == a = b

\* WazuhVersion("3.0.0-alpha4"), the minimum remote-upgradeable version
MinUpgradeVersion == V300a4

\* ------------------------------------------------------------ the digest
\* A package is a sequence of bytes 1..9. hashlib.sha1(...).hexdigest() is
\* modelled by a digest string that is injective on the packages of the
\* model: the decimal digits of the bytes read as a base-10 number.
RECURSIVE FoldBytes(_)
FoldBytes(c) == IF c = <<>> THEN 0 ELSE FoldBytes(SubSeq(c, 1, Len(c) - 1)) * 10 + c[Len(c)]

Sha1(c) == <<"h">> \o StrOf(FoldBytes(c))

\* ReadChunk returning nothing when fewer than n bytes are left
ReadChunk_FullOnly(content, pos, n) ==
  IF pos + n <= Len(content) THEN SubSeq(content, pos + 1, pos + n) ELSE <<>>

\* file.read(chunk_size) at offset pos
ReadChunk(content, pos, n) ==
  SubSeq(content, pos + 1, IF pos + n <= Len(content) THEN pos + n ELSE Len(content))

\* The package of n bytes: byte i holds i, so a lost, repeated or reordered
\* chunk changes the concatenation.
FileOfLen(n) == [i \in 1..n |-> i]

\* A file that differs from c in its last byte (a corrupted or stale copy).
Corrupt(c) == IF c = <<>> THEN <<9>> ELSE [c EXCEPT ![Len(c)] = 9]


\* ------------------------------------------------------ status derivation
\* calculate_status with the threshold itself already disconnected
calculate_status_AtThreshold(last_keep_alive, pending, today) ==
  IF last_keep_alive = 0 THEN "never_connected"
  ELSE IF today - last_keep_alive >= limit_seconds THEN "disconnected"
  ELSE IF pending THEN "pending"
  ELSE "active"

\* calculate_status(last_keep_alive, pending, today); a last_keep_alive of 0
\* stands for None (the code treats both as "no heartbeat").
calculate_status(last_keep_alive, pending, today) ==
  IF last_keep_alive = 0 THEN "never_connected"
  ELSE IF today - last_keep_alive > limit_seconds THEN "disconnected"
  ELSE IF pending THEN "pending"
  ELSE "active"

\* ------------------------------------------------------------------ state
VARIABLES
  op,            \* the call: "upgrade", "upgrade_custom" or "upgrade_result"
  id,            \* self.id
  arg,           \* the call's arguments
  env,           \* what the call finds outside: agent repository, package repository
  disk,          \* var/upgrade and the custom file: file name -> content
  self,          \* the attributes load_info_from_db set on self
  pc,            \* position of the call
  data,          \* last response read from the request socket
  counter,       \* retry counter of the open and result-poll loops
  wpk_file,      \* selected package file name
  agent_new_shasum, \* digest the manifest lists for the selected version
  file_sha1,     \* locally expected digest used at VERIFY
  wpk_file_size, \* stat(...).st_size
  bytes_read,    \* the chunk read last
  fpos,          \* offset of the open package file
  bytes_read_acum, \* progress accumulator
  hsh,           \* bytes fed so far to the incremental sha1 (custom variant)
  sent,          \* requests sent on the request socket, in order
  recv,          \* the response read for each request, in the same order
  http,          \* HTTP GETs issued to the package repository, in order
  notif,         \* datagrams sent on the notification socket, in order
  progress,      \* values handed to show_progress, in order
  result         \* how the call ended

uvars == <<op, id, arg, env, disk, self, pc, data, counter, wpk_file, agent_new_shasum,
           file_sha1, wpk_file_size, bytes_read, fpos, bytes_read_acum, hsh, sent, recv,
           http, notif, progress, result>>

\* the keystore side: the files and tables local enroll and local remove work on
VARIABLES
  kenv,            \* what the calls find outside: agent table, daemon status, first keystore
  client_keys,     \* common.client_keys: the keystore, a sequence of lines
  client_keys_tmp, \* client.keys.tmp: [exists, lines]
  api_lock,        \* holder of the lock on var/run/.api_lock, 0 when free
  proc,            \* per caller: the running call, its position and its locals
  todo,            \* per caller: the calls it still has to make, in order
  agents_db,       \* ids whose per-agent database exists in wazuh-db
  belongs,         \* id_agent values with a row in the belongs table
  agent_files,     \* ids whose artifact files exist under queue/ and var/db/agents
  backup_dirs,     \* backup directories created, in order
  authd,           \* messages sent on the authd socket, in order
  klog             \* the calls that ended, in order: caller, call, outcome

kvars == <<kenv, client_keys, client_keys_tmp, api_lock, proc, todo, agents_db, belongs,
           agent_files, backup_dirs, authd, klog>>

\* the group side: the per-agent group files and the callers editing them
VARIABLES
  genv,            \* what the calls find outside: agent table, group directories, today
  group_files,     \* queue/agent-groups: agent id -> [exists, text]
  gproc,           \* per caller: the running call, its position and its locals
  gtodo,           \* per caller: the calls it still has to make, in order
  glog             \* the calls that ended, in order: caller, call, outcome, file before and after

gvars == <<genv, group_files, gproc, gtodo, glog>>

\* concurrent upgrades: the package directory two upgrade calls share
VARIABLES
  upgrade_dir,     \* var/upgrade: package file name -> [exists, content]
  ucall,           \* per caller: its upgrade call, its position, its locals, whether it
                   \* issued the GET of the package, and its outcome
  usock            \* per caller: the requests sent on its request socket, with the responses

pvars == <<upgrade_dir, ucall, usock>>

vars == <<uvars, kvars, gvars, pvars>>

\* -------------------------------------------------------------- file names
NoName == [kind |-> "", ver |-> NoVersion, plat |-> "", major |-> <<>>]
CustomName == [kind |-> "custom", ver |-> NoVersion, plat |-> "", major |-> <<>>]

\* the package file name _get_wpk_file generates
WpkFileName(version, agent_new_ver, os) ==
  IF os.platform = "windows"
  THEN [kind |-> "wpk", ver |-> agent_new_ver, plat |-> "windows", major |-> <<>>]
  ELSE IF version = NoVersion \/ VerGe(version, V340)
  THEN [kind |-> "wpk", ver |-> agent_new_ver, plat |-> "linux", major |-> <<>>]
  ELSE [kind |-> "wpk", ver |-> agent_new_ver, plat |-> os.platform, major |-> os.major]

\* --------------------------------------------------------------- requests
NoArg == 0 - 1

Request(cmd, n, file, payload, installer) ==
  [id |-> zfill3(id), cmd |-> cmd, n |-> n, file |-> file, payload |-> payload,
   installer |-> installer]

Notification(kind, reason) ==
  [id |-> zfill3(id), kind |-> kind, reason |-> reason, version |-> self.version]

\* responses the agent-management daemon may give
ErrBusy == <<"e", "r", "r", " ", "x">>
Garbage == <<"n", "o">>
WrongDigest == <<"h", "x">>
RespCmd == {OK, ErrBusy, Garbage}
RespSha(expected) ==
  {OKSP \o expected, OKSP \o WrongDigest, OKSP \o expected \o <<" ", "x">>, OK, ErrBusy}
RespResult == {OK0, OK2, OK2 \o <<"0">>, <<"o", "k", " ", "1">>, ErrBusy, Garbage}

\* ---------------------------------------------------------------- results
NoResult == [kind |-> "none", exc |-> "", code |-> 0, msg |-> <<>>, value |-> ""]
Raised(exc, code, msg) == [kind |-> "raise", exc |-> exc, code |-> code, msg |-> msg, value |-> ""]
Returned(value) == [kind |-> "return", exc |-> "", code |-> 0, msg |-> <<>>, value |-> value]

Raise(exc, code, msg) == result' = Raised(exc, code, msg) /\ pc' = "done"

\* common.wpk_chunk_size, scaled down
wpk_chunk_size == MaxChunk

\* chunk_size after "if not chunk_size: chunk_size = common.wpk_chunk_size"
ChunkSize == IF arg.chunk_size = 0 THEN wpk_chunk_size ELSE arg.chunk_size

\* the value handed to show_progress
ProgressValue(acum, size) == (acum * 100) \div size + (IF (acum * 100) % size > 0 THEN 1 ELSE 0)

\* ------------------------------------------------------- load_info_from_db
NoSelf == [status |-> "", version |-> NoVersion, platform |-> "", major |-> <<>>]

\* the attributes the agent repository returns for the agent with integer id i
LoadedInfo(i) ==
  LET rec == env.db[i] IN
  [status |-> calculate_status(rec.lastKeepAlive, rec.version = NoVersion, Now),
   version |-> rec.version, platform |-> rec.platform, major |-> rec.major]


\* ============================================================ Agent.upgrade
\* upgrade, up to the call of _send_wpk_file: the preconditions.
upgrade_start ==
  /\ pc = "start" /\ op = "upgrade"
  /\ UNCHANGED <<op, arg, env, disk, data, counter, wpk_file, agent_new_shasum, file_sha1,
                 wpk_file_size, bytes_read, fpos, bytes_read_acum, hsh, sent, recv, http, notif,
                 progress>>
  /\ IF IntOf(id) = 0
     THEN Raise("WazuhError", 1703, <<>>) /\ UNCHANGED <<id, self>>
     ELSE IF IntOf(id) \notin DOMAIN env.db
     THEN Raise("WazuhError", 1701, <<>>) /\ UNCHANGED <<id, self>>
     ELSE LET info == LoadedInfo(IntOf(id)) IN
          /\ self' = info
          /\ id' = zfill3(StrOf(IntOf(id)))
          /\ IF info.status # "active"
             THEN Raise("WazuhError", 1720, <<>>)
             ELSE IF VerLt(info.version, MinUpgradeVersion)
             THEN Raise("WazuhError", 1719, <<>>)
             ELSE IF info.platform = "windows" /\ IntOf(info.major) < 6
             THEN Raise("WazuhInternalError", 1721, <<>>)
             ELSE pc' = "get_wpk" /\ UNCHANGED result

\* platforms _get_versions rejects before it asks the repository
InvalidPlatform(os) ==
  \/ os.platform \in {"darwin", "solaris", "aix", "hpux", "bsd"}
  \/ <<os.platform, IntOf(os.major)>> \in {<<"sles", 11>>, <<"rhel", 5>>, <<"centos", 5>>}

\* the first manifest entry whose version equals v: its index, 0 when none
RECURSIVE FirstMatch(_, _, _)
FirstMatch(versions, v, i) ==
  IF i > Len(versions) THEN 0
  ELSE IF VerEq(versions[i][1], v) THEN i
  ELSE FirstMatch(versions, v, i + 1)

\* the version _get_wpk_file looks for in the manifest
WantedVersion(version, manager_ver) == IF version = NoVersion THEN manager_ver ELSE version

\* VersionCheck rejecting only an agent strictly above the target
VersionCheck_StrictAgent(manager_ver, agent_ver, agent_new_ver, force) ==
  IF VerLt(manager_ver, agent_new_ver) /\ ~force THEN 1717
  ELSE IF VerLt(agent_new_ver, agent_ver) /\ ~force THEN 1749
  ELSE 0

\* the two version checks of _get_wpk_file: the error code raised, 0 when none
VersionCheck(manager_ver, agent_ver, agent_new_ver, force) ==
  IF VerLt(manager_ver, agent_new_ver) /\ ~force THEN 1717
  ELSE IF VerGe(agent_ver, agent_new_ver) /\ ~force THEN 1749
  ELSE 0

\* _get_wpk_file, first half: the manifest is fetched and the package selected.
get_wpk_select ==
  /\ pc = "get_wpk"
  /\ UNCHANGED <<op, id, arg, env, disk, self, data, counter, file_sha1, wpk_file_size,
                 bytes_read, fpos, bytes_read_acum, hsh, sent, recv, notif, progress>>
  /\ LET manager_ver == env.db[0].version
         versions == env.manifest
         k == FirstMatch(versions, WantedVersion(arg.version, manager_ver), 1)
     IN
     IF InvalidPlatform(self)
     THEN /\ Raise("WazuhInternalError", 1713, <<>>)
          /\ UNCHANGED <<http, wpk_file, agent_new_shasum>>
     ELSE /\ http' = Append(http, "versions")
          /\ IF ~env.reach
             THEN /\ Raise("WazuhInternalError", 1713, <<>>)
                  /\ UNCHANGED <<wpk_file, agent_new_shasum>>
             ELSE IF k = 0
             THEN /\ Raise("WazuhInternalError", 1718, <<>>)
                  /\ UNCHANGED <<wpk_file, agent_new_shasum>>
             ELSE LET agent_new_ver == versions[k][1]
                      code == VersionCheck(manager_ver, self.version, agent_new_ver, arg.force)
                  IN
                  IF code # 0
                  THEN /\ Raise("WazuhError", code, <<>>)
                       /\ UNCHANGED <<wpk_file, agent_new_shasum>>
                  ELSE /\ wpk_file' = WpkFileName(arg.version, agent_new_ver, self)
                       /\ agent_new_shasum' = versions[k][2]
                       /\ pc' = "fetch"
                       /\ UNCHANGED result

\* Reusable taking any local file of that name, whatever its digest
Reusable_ExistsOnly(d, name, shasum) == name \in DOMAIN d

\* whether the local package file exists and its digest is the manifest's
Reusable(d, name, shasum) == name \in DOMAIN d /\ Sha1(d[name]) = shasum

\* _get_wpk_file, second half: reuse the local file or download it.
get_wpk_fetch ==
  /\ pc = "fetch"
  /\ UNCHANGED <<op, id, arg, env, self, data, counter, wpk_file, agent_new_shasum,
                 bytes_read, fpos, bytes_read_acum, hsh, sent, recv, notif, progress>>
  /\ IF Reusable(disk, wpk_file, agent_new_shasum)
     THEN /\ file_sha1' = Sha1(disk[wpk_file])
          /\ wpk_file_size' = Len(disk[wpk_file])
          /\ pc' = "lock"
          /\ UNCHANGED <<disk, http, result>>
     ELSE /\ http' = Append(http, "wpk")
          /\ IF env.download = "fail"
             THEN /\ Raise("WazuhInternalError", 1714, <<>>)
                  /\ UNCHANGED <<disk, file_sha1, wpk_file_size>>
             ELSE LET body == IF env.download = "ok" THEN env.pkg ELSE Corrupt(env.pkg)
                      written == (wpk_file :> body) @@ disk
                  IN
                  /\ disk' = written
                  /\ IF Sha1(body) # agent_new_shasum
                     THEN /\ Raise("WazuhInternalError", 1714, <<>>)
                          /\ UNCHANGED <<file_sha1, wpk_file_size>>
                     ELSE /\ file_sha1' = Sha1(body)
                          /\ wpk_file_size' = Len(body)
                          /\ pc' = "lock"
                          /\ UNCHANGED result


\* ------------------------------------------------------ Agent._send_wpk_file
\* "Sending reset lock timeout", first time.
send_lock ==
  /\ pc = "lock"
  /\ UNCHANGED <<op, id, arg, env, disk, self, counter, wpk_file, agent_new_shasum, file_sha1,
                 wpk_file_size, bytes_read, fpos, bytes_read_acum, hsh, http, notif, progress>>
  /\ \E r \in RespCmd :
       /\ sent' = Append(sent, Request("lock_restart", arg.rl_timeout, NoName, <<>>, ""))
       /\ data' = r
       /\ recv' = Append(recv, r)
       /\ IF ~StartsWith(r, OK)
          THEN Raise("WazuhException", 1715, ReplaceErr(r))
          ELSE pc' = "open" /\ UNCHANGED result

\* "Open file on agent": the first attempt.
send_open ==
  /\ pc = "open"
  /\ UNCHANGED <<op, id, arg, env, disk, self, wpk_file, agent_new_shasum, file_sha1,
                 wpk_file_size, bytes_read, fpos, bytes_read_acum, hsh, http, notif, progress,
                 result>>
  /\ \E r \in RespCmd :
       /\ sent' = Append(sent, Request("open", NoArg, wpk_file, <<>>, ""))
       /\ data' = r
       /\ recv' = Append(recv, r)
       /\ counter' = 0
       /\ pc' = "open_loop"

\* OpenAgain retrying on every response that is not ok
OpenAgain_AnyFailure(d, c, timeout) == ~StartsWith(d, OK) /\ c < timeout

\* OpenAgain with the bound off by one
OpenAgain_OffByOne(d, c, timeout) == StartsWith(d, ERR) /\ c <= timeout

\* the condition of the open loop
OpenAgain(d, c, timeout) == StartsWith(d, ERR) /\ c < timeout

\* One turn of the open loop: sleep, count, ask again.
send_open_retry ==
  /\ pc = "open_loop"
  /\ OpenAgain(data, counter, arg.timeout)
  /\ UNCHANGED <<op, id, arg, env, disk, self, wpk_file, agent_new_shasum, file_sha1,
                 wpk_file_size, bytes_read, fpos, bytes_read_acum, hsh, http, notif, progress,
                 result, pc>>
  /\ \E r \in RespCmd :
       /\ counter' = counter + 1
       /\ sent' = Append(sent, Request("open", NoArg, wpk_file, <<>>, ""))
       /\ data' = r
       /\ recv' = Append(recv, r)

\* After the open loop.
send_open_exit ==
  /\ pc = "open_loop"
  /\ ~OpenAgain(data, counter, arg.timeout)
  /\ UNCHANGED <<op, id, arg, env, disk, self, data, counter, wpk_file, agent_new_shasum,
                 file_sha1, wpk_file_size, bytes_read, fpos, bytes_read_acum, hsh, sent, recv, http,
                 notif, progress>>
  /\ IF ~StartsWith(data, OK)
     THEN Raise("WazuhInternalError", 1715, ReplaceErr(data))
     ELSE pc' = "relock" /\ UNCHANGED result

\* "Sending reset lock timeout", second time; on ok the package file is opened
\* and its first chunk read.
send_relock ==
  /\ pc = "relock"
  /\ UNCHANGED <<op, id, arg, env, disk, self, counter, wpk_file, agent_new_shasum, file_sha1,
                 wpk_file_size, hsh, http, notif, progress>>
  /\ \E r \in RespCmd :
       /\ sent' = Append(sent, Request("lock_restart", arg.rl_timeout, NoName, <<>>, ""))
       /\ data' = r
       /\ recv' = Append(recv, r)
       /\ IF ~StartsWith(r, OK)
          THEN /\ Raise("WazuhInternalError", 1715, ReplaceErr(r))
               /\ UNCHANGED <<bytes_read, fpos, bytes_read_acum>>
          ELSE /\ bytes_read' = ReadChunk(disk[wpk_file], 0, ChunkSize)
               /\ fpos' = Len(bytes_read')
               /\ bytes_read_acum' = 0
               /\ pc' = "write"
               /\ UNCHANGED result

\* One turn of the transfer loop: a write command with the chunk, then the
\* next read and the progress report.
send_write ==
  /\ pc = "write"
  /\ bytes_read # <<>>
  /\ UNCHANGED <<op, id, arg, env, disk, self, counter, wpk_file, agent_new_shasum, file_sha1,
                 wpk_file_size, hsh, http, notif>>
  /\ \E r \in RespCmd :
       /\ sent' = Append(sent, Request("write", Len(bytes_read), wpk_file, bytes_read, ""))
       /\ data' = r
       /\ recv' = Append(recv, r)
       /\ IF ~StartsWith(r, OK)
          THEN /\ Raise("WazuhInternalError", 1715, ReplaceErr(r))
               /\ UNCHANGED <<bytes_read, fpos, bytes_read_acum, progress>>
          ELSE /\ bytes_read' = ReadChunk(disk[wpk_file], fpos, ChunkSize)
               /\ fpos' = fpos + Len(bytes_read')
               /\ IF arg.show_progress
                  THEN /\ bytes_read_acum' = bytes_read_acum + Len(bytes_read')
                       /\ progress' = Append(progress, ProgressValue(bytes_read_acum', wpk_file_size))
                  ELSE UNCHANGED <<bytes_read_acum, progress>>
               /\ UNCHANGED <<pc, result>>

\* The transfer loop has ended: "Close file on agent".
send_close ==
  /\ pc = "write"
  /\ bytes_read = <<>>
  /\ UNCHANGED <<op, id, arg, env, disk, self, counter, wpk_file, agent_new_shasum, file_sha1,
                 wpk_file_size, bytes_read, fpos, bytes_read_acum, hsh, http, notif, progress>>
  /\ \E r \in RespCmd :
       /\ sent' = Append(sent, Request("close", NoArg, wpk_file, <<>>, ""))
       /\ data' = r
       /\ recv' = Append(recv, r)
       /\ IF ~StartsWith(r, OK)
          THEN Raise("WazuhInternalError", 1715, ReplaceErr(r))
          ELSE pc' = "sha1" /\ UNCHANGED result

\* DigestAccepted with the comparison of the digests left out
DigestAccepted_NoCompare(d, expected) == StartsWith(d, OKSP)

\* whether the response to "com sha1" carries the expected digest
DigestAccepted(d, expected) == StartsWith(d, OKSP) /\ SplitSecond(d) = expected

\* "Get file SHA1 from agent and compare".
send_sha1 ==
  /\ pc = "sha1"
  /\ UNCHANGED <<op, id, arg, env, disk, self, counter, wpk_file, agent_new_shasum, file_sha1,
                 wpk_file_size, bytes_read, fpos, bytes_read_acum, hsh, http, notif, progress>>
  /\ \E r \in RespSha(file_sha1) :
       /\ sent' = Append(sent, Request("sha1", NoArg, wpk_file, <<>>, ""))
       /\ data' = r
       /\ recv' = Append(recv, r)
       /\ IF DigestAccepted(r, file_sha1)
          THEN pc' = "dispatch" /\ UNCHANGED result
          ELSE Raise("WazuhInternalError", 1715, ReplaceErr(r))

\* DispatchNotice leaving the reason out of the aborted datagram
DispatchNotice_NoReason(r) ==
  IF StartsWith(r, OK) THEN Notification("started", <<>>)
  ELSE Notification("aborted", <<>>)

\* DispatchNotice reporting every dispatch as started
DispatchNotice_AlwaysStarted(r) == Notification("started", <<>>)

\* the datagram upgrade sends after the response r to "com upgrade"
DispatchNotice(r) ==
  IF StartsWith(r, OK) THEN Notification("started", <<>>)
  ELSE Notification("aborted", ReplaceErr(r))

\* how upgrade ends after the response r to "com upgrade"
DispatchResult(r) ==
  IF StartsWith(r, OK) THEN Returned("Upgrade procedure started")
  ELSE Raised("WazuhError", 1716, ReplaceErr(r))

\* the installer upgrade names
DefaultInstaller(os) == IF os.platform = "windows" THEN "upgrade.bat" ELSE "upgrade.sh"

\* upgrade, after _send_wpk_file returned: "Send upgrading command".
upgrade_dispatch ==
  /\ pc = "dispatch"
  /\ UNCHANGED <<op, id, arg, env, disk, self, counter, wpk_file, agent_new_shasum, file_sha1,
                 wpk_file_size, bytes_read, fpos, bytes_read_acum, hsh, http, progress>>
  /\ \E r \in RespCmd :
       /\ sent' = Append(sent, Request("upgrade", NoArg, wpk_file, <<>>, DefaultInstaller(self)))
       /\ data' = r
       /\ recv' = Append(recv, r)
       /\ pc' = "done"
       /\ notif' = Append(notif, DispatchNotice(r))
       /\ result' = DispatchResult(r)


\* ===================================================== Agent.upgrade_result
\* upgrade_result, up to the result-poll loop: the first request.
upgrade_result_start ==
  /\ pc = "start" /\ op = "upgrade_result"
  /\ UNCHANGED <<op, arg, env, disk, wpk_file, agent_new_shasum, file_sha1, wpk_file_size,
                 bytes_read, fpos, bytes_read_acum, hsh, http, notif, progress>>
  /\ IF id = ManagerId
     THEN Raise("WazuhError", 1703, <<>>) /\ UNCHANGED <<id, self, data, counter, sent, recv>>
     ELSE IF IntOf(id) \notin DOMAIN env.db
     THEN Raise("WazuhError", 1701, <<>>) /\ UNCHANGED <<id, self, data, counter, sent, recv>>
     ELSE /\ self' = LoadedInfo(IntOf(id))
          /\ id' = zfill3(StrOf(IntOf(id)))
          /\ \E r \in RespResult :
               /\ sent' = Append(sent, [Request("upgrade_result", NoArg, NoName, <<>>, "")
                                          EXCEPT !.id = zfill3(id')])
               /\ data' = r
               /\ recv' = Append(recv, r)
          /\ counter' = 0
          /\ pc' = "result_loop"
          /\ UNCHANGED result

\* PollAgain with the bound off by one
PollAgain_OffByOne(d, c, timeout) == StartsWith(d, ERR) /\ c <= timeout

\* the condition of the result-poll loop
PollAgain(d, c, timeout) == StartsWith(d, ERR) /\ c < timeout

\* One turn of the result-poll loop.
upgrade_result_retry ==
  /\ pc = "result_loop"
  /\ PollAgain(data, counter, arg.timeout)
  /\ UNCHANGED <<op, id, arg, env, disk, self, wpk_file, agent_new_shasum, file_sha1,
                 wpk_file_size, bytes_read, fpos, bytes_read_acum, hsh, http, notif, progress,
                 result, pc>>
  /\ \E r \in RespResult :
       /\ counter' = counter + 1
       /\ sent' = Append(sent, Request("upgrade_result", NoArg, NoName, <<>>, ""))
       /\ data' = r
       /\ recv' = Append(recv, r)

\* ResultKind without the rollback case
ResultKind_NoRollback(d) == IF StartsWith(d, OK0) THEN "succeeded" ELSE "lost"

\* how upgrade_result reads the final response
ResultKind(d) ==
  IF StartsWith(d, OK0) THEN "succeeded"
  ELSE IF StartsWith(d, OK2) THEN "failed_restored"
  ELSE "lost"

RestoredMsg == <<"r", "e", "s", "t", "o", "r", "e", "d">>

\* After the result-poll loop: the outcome and its notification.
upgrade_result_exit ==
  /\ pc = "result_loop"
  /\ ~PollAgain(data, counter, arg.timeout)
  /\ UNCHANGED <<op, id, arg, env, disk, self, data, counter, wpk_file, agent_new_shasum,
                 file_sha1, wpk_file_size, bytes_read, fpos, bytes_read_acum, hsh, sent, recv, http,
                 progress>>
  /\ pc' = "done"
  /\ LET kind == ResultKind(data) IN
     IF kind = "succeeded"
     THEN /\ notif' = Append(notif, Notification("succeeded", <<>>))
          /\ result' = Returned("Agent upgraded successfully")
     ELSE IF kind = "failed_restored"
     THEN /\ notif' = Append(notif, Notification("failed_restored", <<>>))
          /\ result' = Raised("WazuhError", 1716, RestoredMsg)
     ELSE /\ notif' = Append(notif, Notification("lost", ReplaceErr(data)))
          /\ result' = Raised("WazuhError", 1716, ReplaceErr(data))

\* ===================================================== Agent.upgrade_custom
\* upgrade_custom up to the first request of _send_custom_wpk_file.
upgrade_custom_start ==
  /\ pc = "start" /\ op = "upgrade_custom"
  /\ UNCHANGED <<op, arg, env, disk, data, counter, agent_new_shasum, file_sha1, bytes_read,
                 fpos, bytes_read_acum, hsh, sent, recv, http, notif, progress>>
  /\ IF id = ManagerId
     THEN Raise("WazuhError", 1703, <<>>) /\ UNCHANGED <<id, self, wpk_file, wpk_file_size>>
     ELSE IF IntOf(id) \notin DOMAIN env.db
     THEN Raise("WazuhError", 1701, <<>>) /\ UNCHANGED <<id, self, wpk_file, wpk_file_size>>
     ELSE LET info == LoadedInfo(IntOf(id)) IN
          /\ self' = info
          /\ id' = zfill3(StrOf(IntOf(id)))
          /\ IF info.status # "active"
             THEN Raise("WazuhException", 1720, <<>>) /\ UNCHANGED <<wpk_file, wpk_file_size>>
             ELSE IF ~arg.file_path \/ CustomName \notin DOMAIN disk
             THEN Raise("WazuhError", 1006, <<>>) /\ UNCHANGED <<wpk_file, wpk_file_size>>
             ELSE /\ wpk_file' = CustomName
                  /\ wpk_file_size' = Len(disk[CustomName])
                  /\ pc' = "c_lock"
                  /\ UNCHANGED result

\* -------------------------------------------- Agent._send_custom_wpk_file
\* "Sending reset lock timeout".
custom_lock ==
  /\ pc = "c_lock"
  /\ UNCHANGED <<op, id, arg, env, disk, self, counter, wpk_file, agent_new_shasum, file_sha1,
                 wpk_file_size, bytes_read, fpos, bytes_read_acum, hsh, http, notif, progress>>
  /\ \E r \in RespCmd :
       /\ sent' = Append(sent, Request("lock_restart", arg.rl_timeout, NoName, <<>>, ""))
       /\ data' = r
       /\ recv' = Append(recv, r)
       /\ IF ~StartsWith(r, OK)
          THEN Raise("WazuhInternalError", 1715, ReplaceErr(r))
          ELSE pc' = "c_open" /\ UNCHANGED result

\* "Open file on agent": the first attempt.
custom_open ==
  /\ pc = "c_open"
  /\ UNCHANGED <<op, id, arg, env, disk, self, wpk_file, agent_new_shasum, file_sha1,
                 wpk_file_size, bytes_read, fpos, bytes_read_acum, hsh, http, notif, progress,
                 result>>
  /\ \E r \in RespCmd :
       /\ sent' = Append(sent, Request("open", NoArg, wpk_file, <<>>, ""))
       /\ data' = r
       /\ recv' = Append(recv, r)
       /\ counter' = 0
       /\ pc' = "c_open_loop"

\* CustomOpenAgain with one turn more
CustomOpenAgain_OneMore(d, c, timeout) == StartsWith(d, ERR) /\ c <= timeout

\* the condition of the custom variant's open loop
CustomOpenAgain(d, c, timeout) == StartsWith(d, ERR) /\ c < timeout

\* One turn of the open loop.
custom_open_retry ==
  /\ pc = "c_open_loop"
  /\ CustomOpenAgain(data, counter, arg.timeout)
  /\ UNCHANGED <<op, id, arg, env, disk, self, wpk_file, agent_new_shasum, file_sha1,
                 wpk_file_size, bytes_read, fpos, bytes_read_acum, hsh, http, notif, progress,
                 result, pc>>
  /\ \E r \in RespCmd :
       /\ counter' = counter + 1
       /\ sent' = Append(sent, Request("open", NoArg, wpk_file, <<>>, ""))
       /\ data' = r
       /\ recv' = Append(recv, r)

\* After the open loop; on ok the file is opened, its first chunk read and
\* the incremental digest started with it.
custom_open_exit ==
  /\ pc = "c_open_loop"
  /\ ~CustomOpenAgain(data, counter, arg.timeout)
  /\ UNCHANGED <<op, id, arg, env, disk, self, data, counter, wpk_file, agent_new_shasum,
                 file_sha1, wpk_file_size, sent, recv, http, notif, progress>>
  /\ IF ~StartsWith(data, OK)
     THEN /\ Raise("WazuhInternalError", 1715, ReplaceErr(data))
          /\ UNCHANGED <<bytes_read, fpos, bytes_read_acum, hsh>>
     ELSE /\ bytes_read' = ReadChunk(disk[CustomName], 0, ChunkSize)
          /\ fpos' = Len(bytes_read')
          /\ hsh' = bytes_read'
          /\ bytes_read_acum' = 0
          /\ pc' = "c_write"
          /\ UNCHANGED result

\* HashUpdate forgetting what was fed before
HashUpdate_Restart(fed, chunk) == chunk

\* file_sha1.update(bytes_read): what the digest has been fed after it
HashUpdate(fed, chunk) == fed \o chunk

\* One turn of the transfer loop.
custom_write ==
  /\ pc = "c_write"
  /\ bytes_read # <<>>
  /\ UNCHANGED <<op, id, arg, env, disk, self, counter, wpk_file, agent_new_shasum, file_sha1,
                 wpk_file_size, http, notif>>
  /\ \E r \in RespCmd :
       /\ sent' = Append(sent, Request("write", Len(bytes_read), wpk_file, bytes_read, ""))
       /\ data' = r
       /\ recv' = Append(recv, r)
       /\ IF ~StartsWith(r, OK)
          THEN /\ Raise("WazuhException", 1715, ReplaceErr(r))
               /\ UNCHANGED <<bytes_read, fpos, bytes_read_acum, hsh, progress>>
          ELSE /\ bytes_read' = ReadChunk(disk[CustomName], fpos, ChunkSize)
               /\ fpos' = fpos + Len(bytes_read')
               /\ hsh' = HashUpdate(hsh, bytes_read')
               /\ IF arg.show_progress
                  THEN /\ bytes_read_acum' = bytes_read_acum + Len(bytes_read')
                       /\ progress' = Append(progress, ProgressValue(bytes_read_acum', wpk_file_size))
                  ELSE UNCHANGED <<bytes_read_acum, progress>>
               /\ UNCHANGED <<pc, result>>

\* The transfer loop has ended: the digest is taken, then "Close file on agent".
custom_close ==
  /\ pc = "c_write"
  /\ bytes_read = <<>>
  /\ UNCHANGED <<op, id, arg, env, disk, self, counter, wpk_file, agent_new_shasum,
                 wpk_file_size, bytes_read, fpos, bytes_read_acum, hsh, http, notif, progress>>
  /\ file_sha1' = Sha1(hsh)
  /\ \E r \in RespCmd :
       /\ sent' = Append(sent, Request("close", NoArg, wpk_file, <<>>, ""))
       /\ data' = r
       /\ recv' = Append(recv, r)
       /\ IF ~StartsWith(r, OK)
          THEN Raise("WazuhInternalError", 1715, ReplaceErr(r))
          ELSE pc' = "c_sha1" /\ UNCHANGED result

\* whether the response carries the digest computed while sending
CustomDigestAccepted(d, calc_sha1) == StartsWith(d, OKSP) /\ calc_sha1 = SplitSecond(d)

\* "Get file SHA1 from agent and compare".
custom_sha1 ==
  /\ pc = "c_sha1"
  /\ UNCHANGED <<op, id, arg, env, disk, self, counter, wpk_file, agent_new_shasum, file_sha1,
                 wpk_file_size, bytes_read, fpos, bytes_read_acum, hsh, http, notif, progress>>
  /\ \E r \in RespSha(file_sha1) :
       /\ sent' = Append(sent, Request("sha1", NoArg, wpk_file, <<>>, ""))
       /\ data' = r
       /\ recv' = Append(recv, r)
       /\ IF CustomDigestAccepted(r, file_sha1)
          THEN pc' = "c_dispatch" /\ UNCHANGED result
          ELSE Raise("WazuhInternalError", 1715, ReplaceErr(r))

\* the datagram upgrade_custom sends after the response r to "com upgrade"
CustomDispatchNotice(r) ==
  IF StartsWith(r, OK) THEN Notification("started", <<>>)
  ELSE Notification("aborted", ReplaceErr(r))

\* how upgrade_custom ends after the response r to "com upgrade"
CustomDispatchResult(r) ==
  IF StartsWith(r, OK) THEN Returned("Installation started")
  ELSE Raised("WazuhError", 1716, ReplaceErr(r))

\* the installer upgrade_custom names
CustomInstaller(installer, os) ==
  IF installer # "" THEN installer
  ELSE IF os.platform = "windows" THEN "upgrade.bat" ELSE "upgrade.sh"

\* upgrade_custom, after _send_custom_wpk_file returned: "Send installing command".
custom_dispatch ==
  /\ pc = "c_dispatch"
  /\ UNCHANGED <<op, id, arg, env, disk, self, counter, wpk_file, agent_new_shasum, file_sha1,
                 wpk_file_size, bytes_read, fpos, bytes_read_acum, hsh, http, progress>>
  /\ \E r \in RespCmd :
       /\ sent' = Append(sent, Request("upgrade", NoArg, wpk_file, <<>>,
                                       CustomInstaller(arg.installer, self)))
       /\ data' = r
       /\ recv' = Append(recv, r)
       /\ pc' = "done"
       /\ notif' = Append(notif, CustomDispatchNotice(r))
       /\ result' = CustomDispatchResult(r)


\* ================================================================== inputs
Ops == {"upgrade", "upgrade_custom", "upgrade_result"}

Ubuntu == [platform |-> "ubuntu", major |-> <<"1", "6">>]
Windows5 == [platform |-> "windows", major |-> <<"5">>]
Windows6 == [platform |-> "windows", major |-> <<"6">>]
Darwin == [platform |-> "darwin", major |-> <<"1", "9">>]

AgentRec(ka, ver, os) ==
  [lastKeepAlive |-> ka, version |-> ver, platform |-> os.platform, major |-> os.major]

\* the agent repository: the manager's record (id 0) and the record of agent 3
Db(manager_ver, rec) == (0 :> AgentRec(Now, manager_ver, Ubuntu)) @@ (3 :> rec)

Manifest1(h) == << <<V290, h>>, <<V360, h>>, <<V3100, h>> >>
Manifest2(h) == << <<V3100, h>>, <<V400, h>> >>

WpkNames ==
  {WpkFileName(rv, v, os) : rv \in {NoVersion, V290}, v \in {V290, V360, V3100, V400},
                            os \in {Ubuntu, Windows6}}

\* var/upgrade holding content c under every package name, or nothing
Packages(have, c) == [n \in (IF have THEN WpkNames ELSE {}) |-> c]

BaseArg ==
  [version |-> NoVersion, force |-> FALSE, chunk_size |-> 1, timeout |-> 1,
   rl_timeout |-> 0 - 1, show_progress |-> TRUE, file_path |-> TRUE, installer |-> ""]

BaseEnv(pkg) ==
  [db |-> Db(V3100, AgentRec(Now, V360, Ubuntu)), manifest |-> Manifest1(Sha1(pkg)),
   reach |-> TRUE, download |-> "ok", pkg |-> pkg]

Start(o, i, a, e, d) ==
  /\ op = o /\ id = i /\ arg = a /\ env = e /\ disk = d
  /\ self = NoSelf
  /\ pc = "start"
  /\ data = <<>>
  /\ counter = 0
  /\ wpk_file = NoName
  /\ agent_new_shasum = <<>>
  /\ file_sha1 = <<>>
  /\ wpk_file_size = 0
  /\ bytes_read = <<>>
  /\ fpos = 0
  /\ bytes_read_acum = 0
  /\ hsh = <<>>
  /\ sent = <<>>
  /\ recv = <<>>
  /\ http = <<>>
  /\ notif = <<>>
  /\ progress = <<>>
  /\ result = NoResult

\* Calls on every kind of agent id and agent record (the preconditions).
InitAgents ==
  \E o \in Ops,
     i \in {<<"0">>, ManagerId, <<"0", "0", "3">>, <<"3">>, <<"0", "0", "5">>},
     ka \in {0, Now - limit_seconds - 1, Now - limit_seconds},
     ver \in {NoVersion, V290, V300a4, V360},
     os \in {Ubuntu, Windows5, Windows6, Darwin},
     custom \in {"present", "absent", "not given"} :
    /\ (o # "upgrade_custom" => custom = "present")
    /\ LET pkg == FileOfLen(2) IN
       Start(o, i, [BaseArg EXCEPT !.file_path = (custom # "not given")],
             [BaseEnv(pkg) EXCEPT !.db = Db(V3100, AgentRec(ka, ver, os))],
             IF custom = "absent" THEN Packages(FALSE, pkg)
             ELSE (CustomName :> pkg) @@ Packages(FALSE, pkg))

\* upgrade on an agent that passes the preconditions, with every combination of
\* versions, manifest, local package file and download outcome.
InitSelection ==
  \E ver \in {V300a4, V360, V3100},
     os \in {Ubuntu, Windows6},
     manager_ver \in {V360, V3100},
     version \in {NoVersion, V290, V3100, V400},
     force \in BOOLEAN,
     manifest \in {"none", "empty", "one", "two"},
     local \in {"absent", "good", "stale"},
     download \in {"ok", "corrupt", "fail"} :
    LET pkg == FileOfLen(1)
        h == Sha1(pkg)
    IN
    Start("upgrade", <<"0", "0", "3">>,
          [BaseArg EXCEPT !.version = version, !.force = force, !.timeout = 0],
          [db |-> Db(manager_ver, AgentRec(Now, ver, os)),
           manifest |-> IF manifest = "one" THEN Manifest1(h)
                        ELSE IF manifest = "two" THEN Manifest2(h) ELSE <<>>,
           reach |-> (manifest # "none"), download |-> download, pkg |-> pkg],
          Packages(local # "absent", IF local = "good" THEN pkg ELSE Corrupt(pkg)))

\* Calls on an upgradeable agent with every package size, chunk size and retry
\* budget (the transfer).
InitTransfer ==
  \E o \in Ops,
     n \in 0..MaxLen,
     chunk_size \in 0..MaxChunk,
     timeout \in 0..MaxRetries,
     installer \in {"", "custom.sh"} :
    /\ (o # "upgrade_custom" => installer = "")
    /\ LET pkg == FileOfLen(n) IN
       Start(o, <<"0", "0", "3">>,
             [BaseArg EXCEPT !.chunk_size = chunk_size, !.timeout = timeout,
                             !.installer = installer],
             BaseEnv(pkg),
             (CustomName :> pkg) @@ Packages(TRUE, pkg))

\* the keystore side at rest, while an upgrade call runs
KeysIdle ==
  /\ kenv = [db |-> <<>>, authd_running |-> FALSE, keys |-> <<>>, fault |-> "none"]
  /\ client_keys = <<>>
  /\ client_keys_tmp = [exists |-> FALSE, lines |-> <<>>]
  /\ api_lock = 0
  /\ proc = <<>>
  /\ todo = <<>>
  /\ agents_db = {}
  /\ belongs = {}
  /\ agent_files = {}
  /\ backup_dirs = <<>>
  /\ authd = <<>>
  /\ klog = <<>>

\* the group side at rest
GroupsIdle ==
  /\ genv = [db |-> <<>>, shared |-> {}, today |-> 0]
  /\ group_files = <<>>
  /\ gproc = <<>>
  /\ gtodo = <<>>
  /\ glog = <<>>

\* no concurrent upgrade calls
PairIdle ==
  /\ upgrade_dir = <<>>
  /\ ucall = <<>>
  /\ usock = <<>>

Init == (InitAgents \/ InitSelection \/ InitTransfer) /\ KeysIdle /\ GroupsIdle /\ PairIdle

Next ==
  \/ upgrade_start /\ UNCHANGED <<kvars, gvars, pvars>>
  \/ get_wpk_select /\ UNCHANGED <<kvars, gvars, pvars>>
  \/ get_wpk_fetch /\ UNCHANGED <<kvars, gvars, pvars>>
  \/ send_lock /\ UNCHANGED <<kvars, gvars, pvars>>
  \/ send_open /\ UNCHANGED <<kvars, gvars, pvars>>
  \/ send_open_retry /\ UNCHANGED <<kvars, gvars, pvars>>
  \/ send_open_exit /\ UNCHANGED <<kvars, gvars, pvars>>
  \/ send_relock /\ UNCHANGED <<kvars, gvars, pvars>>
  \/ send_write /\ UNCHANGED <<kvars, gvars, pvars>>
  \/ send_close /\ UNCHANGED <<kvars, gvars, pvars>>
  \/ send_sha1 /\ UNCHANGED <<kvars, gvars, pvars>>
  \/ upgrade_dispatch /\ UNCHANGED <<kvars, gvars, pvars>>
  \/ upgrade_result_start /\ UNCHANGED <<kvars, gvars, pvars>>
  \/ upgrade_result_retry /\ UNCHANGED <<kvars, gvars, pvars>>
  \/ upgrade_result_exit /\ UNCHANGED <<kvars, gvars, pvars>>
  \/ upgrade_custom_start /\ UNCHANGED <<kvars, gvars, pvars>>
  \/ custom_lock /\ UNCHANGED <<kvars, gvars, pvars>>
  \/ custom_open /\ UNCHANGED <<kvars, gvars, pvars>>
  \/ custom_open_retry /\ UNCHANGED <<kvars, gvars, pvars>>
  \/ custom_open_exit /\ UNCHANGED <<kvars, gvars, pvars>>
  \/ custom_write /\ UNCHANGED <<kvars, gvars, pvars>>
  \/ custom_close /\ UNCHANGED <<kvars, gvars, pvars>>
  \/ custom_sha1 /\ UNCHANGED <<kvars, gvars, pvars>>
  \/ custom_dispatch /\ UNCHANGED <<kvars, gvars, pvars>>

Spec == Init /\ [][Next]_vars



\* ============================================================ the keystore
\* A keystore line is a sequence of tokens, each a sequence of characters
\* (the ip token holds the address as one symbol). An agent entry is
\* <<id, name, ip, key>>; a blank line is << <<>> >>; a line that starts with
\* spaces carries them at the head of its first token.

\* len(key) < 64 is rejected
MinKeyLen == 64

KeyOf(n, c) == [i \in 1..n |-> c]

\* the hexadecimal digest pair _add_manual generates when no key is given
GeneratedKey == KeyOf(MinKeyLen, "g")

Entry(i, n, a, k) == <<i, n, a, k>>

RECURSIVE StripToken(_)
StripToken(t) == IF t # <<>> /\ Head(t) = " " THEN StripToken(Tail(t)) ELSE t

\* line.strip().split(' ') as _remove_manual takes a line apart
StripLine(line) == [line EXCEPT ![1] = StripToken(@)]

\* '{0} !{1} {2} {3}\n'.format(id, name, ip, key)
TombstoneLine(line) == <<StripLine(line)[1], <<"!">> \o line[2], line[3], line[4]>>

\* name[0] in '#!'
Tombstoned(name) == name[1] \in {"#", "!"}

\* "id, name, ip, key = line.strip().split(' ')" raises on such a line
Unpackable(line) == Len(line) = 4

\* "self.id == id and name[0] not in '#!'"
IsTarget(line, rid) == StripLine(line)[1] = rid /\ ~Tombstoned(line[2])

\* agent_found after the loop of _remove_manual
agent_found(lines, rid) == \E k \in 1..Len(lines) : IsTarget(lines[k], rid)

\* IsTarget matching tombstoned lines of that id as well
RewriteTarget_AnyLine(line, rid) == StripLine(line)[1] = rid

\* the lines _remove_manual rewrites rather than copies
RewriteTarget(line, rid) == IsTarget(line, rid)

\* what the loop of _remove_manual writes to the temp file
RECURSIVE Rewritten(_, _, _)
Rewritten(lines, rid, purge) ==
  IF lines = <<>> THEN <<>>
  ELSE (IF RewriteTarget(Head(lines), rid)
        THEN (IF purge THEN <<>> ELSE <<TombstoneLine(Head(lines))>>)
        ELSE <<Head(lines)>>) \o Rewritten(Tail(lines), rid, purge)

\* get_basic_information()['lastKeepAlive'] of a stored agent: a value that is
\* not truthy (None, 0) is left out of the dictionary, which 0 stands for
BasicLastKeepAlive(rec) == rec.lastKeepAlive

\* "if difference >= seconds: remove_agent = True"
Stale(difference, seconds) == difference >= seconds

\* Agent.check_if_delete_agent on an agent the repository holds
check_if_delete_agent(rec, seconds) ==
  IF BasicLastKeepAlive(rec) = 0 THEN FALSE
  ELSE Stale(Now - BasicLastKeepAlive(rec), seconds)

\* ipaddress.ip_address / ip_network accept the address
AnyIp == <<"any">>
ValidIps == {<<"10.0.0.1">>, <<"10.0.0.2">>, <<"10.0.0.0/8">>}
BadIp == <<"10.0.0.256">>

ScanRaise(code, k, last) == [kind |-> "raise", code |-> code, k |-> k, last_id |-> last]
ScanEvict(k, last) == [kind |-> "evict", code |-> 0, k |-> k, last_id |-> last]
ScanEnd(k, last) == [kind |-> "end", code |-> 0, k |-> k, last_id |-> last]

\* a negative force treated like any other
ForceRefused_Never(force) == FALSE

\* "if force < 0: raise"
ForceRefused(force) == force < 0

\* "if id and id == line_data[0]"
IdTaken(aid, line) == aid # <<>> /\ aid = line[1]

\* last_id counting the active lines only
NextLast_ActiveOnly(last, line) ==
  IF ~Tombstoned(line[2]) /\ last < IntOf(line[1]) THEN IntOf(line[1]) ELSE last

\* "if last_id < line_id: last_id = line_id"
NextLast(last, line) == IF last < IntOf(line[1]) THEN IntOf(line[1]) ELSE last

\* The scan of _add_manual from line k on, up to its next effect: an error,
\* the eviction of line k, or the end of the file. db is the agent repository.
RECURSIVE Scan(_, _, _, _, _)
Scan(lines, k, last, a, db) ==
  IF k > Len(lines) THEN ScanEnd(k, last)
  ELSE LET line == lines[k] IN
    IF line = << <<>> >> THEN Scan(lines, k + 1, last, a, db)
    ELSE IF line[1][1] \in {"#", " "} THEN Scan(lines, k + 1, last, a, db)
    ELSE LET new_last == NextLast(last, line)
             name_hit == a.name = line[2]
             ip_hit == a.ip # AnyIp /\ a.ip = line[3]
             check_remove == IF ip_hit THEN 2 ELSE IF name_hit THEN 1 ELSE 0
         IN
         IF Tombstoned(line[2]) THEN Scan(lines, k + 1, new_last, a, db)
         ELSE IF IdTaken(a.id, line) THEN ScanRaise(1708, k, new_last)
         ELSE IF name_hit /\ ForceRefused(a.force) THEN ScanRaise(1705, k, new_last)
         ELSE IF ip_hit /\ ForceRefused(a.force) THEN ScanRaise(1706, k, new_last)
         ELSE IF check_remove = 0 THEN Scan(lines, k + 1, new_last, a, db)
         ELSE IF a.force = 0 THEN ScanEvict(k, new_last)
         ELSE IF IntOf(line[1]) \notin DOMAIN db THEN ScanRaise(1701, k, new_last)
         ELSE IF check_if_delete_agent(db[IntOf(line[1])], a.force)
              THEN ScanEvict(k, new_last)
         ELSE ScanRaise(IF check_remove = 1 THEN 1705 ELSE 1706, k, new_last)


\* ------------------------------------------------------------ callers
\* number of concurrent callers (API workers)
NProcs == 3

Procs == 1..NProcs

NoFile == [exists |-> FALSE, lines |-> <<>>]
File(lines) == [exists |-> TRUE, lines |-> lines]

NoCall ==
  [kind |-> "none", name |-> <<>>, ip |-> <<>>, id |-> <<>>, key |-> <<>>, force |-> 0 - 1,
   backup |-> FALSE, purge |-> FALSE, use_only_authd |-> FALSE]

\* Agent(name=..., ip=..., id=..., key=..., force=..., use_only_authd=...)
EnrollCall(name, ip, i, key, force, only) ==
  [NoCall EXCEPT !.kind = "enroll", !.name = name, !.ip = ip, !.id = i, !.key = key,
                 !.force = force, !.use_only_authd = only]

\* Agent(id).remove(backup, purge, use_only_authd)
RemoveCall(i, backup, purge, only) ==
  [NoCall EXCEPT !.kind = "remove", !.id = i, !.backup = backup, !.purge = purge,
                 !.use_only_authd = only]

\* a caller between two calls
IdleProc ==
  [call |-> NoCall, pc |-> "idle", aid |-> <<>>, lines |-> <<>>, k |-> 1, last_id |-> 0,
   agent_id |-> <<>>, agent_key |-> <<>>, nested |-> FALSE, rid |-> <<>>,
   rbackup |-> FALSE, rpurge |-> FALSE, rlines |-> <<>>]

\* the call of caller p ends with outcome res
EndCall(p, c, res) ==
  /\ klog' = Append(klog, [p |-> p, call |-> c, result |-> res])
  /\ proc' = [proc EXCEPT ![p] = IdleProc]

\* str(self.id).zfill(3) of the id load_info_from_db read back
StoredId(i) == zfill3(StrOf(IntOf(i)))

\* what the authd socket answers: data, or the error code OssecSocketJSON raises
AuthdReplies == {0, 9008, 9007, 9012, 9011}

\* the error _add_authd raises for a daemon error code
AuthdError(code) ==
  IF code = 9008 THEN 1705 ELSE IF code = 9007 THEN 1706 ELSE IF code = 9012 THEN 1708 ELSE code

\* the message _add_authd sends
AddMessage(c, aid) ==
  IF aid # <<>> /\ c.key # <<>>
  THEN [function |-> "add", name |-> c.name, ip |-> c.ip, id |-> aid, key |-> c.key,
        force |-> c.force, purge |-> FALSE]
  ELSE [function |-> "add", name |-> c.name, ip |-> c.ip, id |-> <<>>, key |-> <<>>,
        force |-> c.force, purge |-> FALSE]

\* the message _remove_authd sends
RemoveMessage(c) ==
  [function |-> "remove", name |-> <<>>, ip |-> <<>>, id |-> zfill3(c.id), key |-> <<>>,
   force |-> 0, purge |-> c.purge]

\* the test of use_only_authd dropped
AuthdUnavailable_Never(use_only_authd, is_authd_running) == FALSE

\* "if use_only_authd: if not is_authd_running: raise WazuhInternalError(1726)"
AuthdUnavailable(use_only_authd, is_authd_running) == use_only_authd /\ ~is_authd_running

\* the key test dropped
KeyTooShort_Never(key) == FALSE

\* "if key and len(key) < 64"
KeyTooShort(key) == key # <<>> /\ Len(key) < MinKeyLen

\* the operations that may fail: none, the append to the temp file, the
\* DELETE FROM belongs, the relocation of the agent's files, or the open of
\* the keystore by _add_manual
Faults == {"none", "write", "belongs", "files", "open"}

\* str(e) of the exception a failing operation raises
FaultMsg == <<"errno">>

\* ---------------------------------------------------------- Agent._add
\* Agent._add with the head of _add_authd or _add_manual: validation, the
\* probe of the daemon, and the whole delegated path.
add(p) ==
  /\ proc[p].pc = "idle"
  /\ todo[p] # <<>>
  /\ Head(todo[p]).kind = "enroll"
  /\ todo' = [todo EXCEPT ![p] = Tail(@)]
  /\ UNCHANGED <<kenv, client_keys, client_keys_tmp, api_lock, agents_db, belongs,
                 agent_files, backup_dirs>>
  /\ LET c == Head(todo[p])
         aid == IF c.id # <<>> THEN zfill3(c.id) ELSE <<>>
     IN
     IF c.ip # AnyIp /\ c.ip \notin ValidIps
     THEN EndCall(p, c, Raised("WazuhError", 1706, <<>>)) /\ UNCHANGED authd
     ELSE IF AuthdUnavailable(c.use_only_authd, kenv.authd_running)
     THEN EndCall(p, c, Raised("WazuhInternalError", 1726, <<>>)) /\ UNCHANGED authd
     ELSE IF KeyTooShort(c.key)
     THEN EndCall(p, c, Raised("WazuhError", 1709, <<>>)) /\ UNCHANGED authd
     ELSE IF kenv.authd_running
     THEN /\ authd' = Append(authd, AddMessage(c, aid))
          /\ \E reply \in AuthdReplies :
               EndCall(p, c, IF reply = 0 THEN Returned(<<"authd">>)
                             ELSE Raised("WazuhError", AuthdError(reply), <<>>))
     ELSE IF c.name = kenv.db[0].name
     THEN EndCall(p, c, Raised("WazuhError", 1705, <<>>)) /\ UNCHANGED authd
     ELSE /\ proc' = [proc EXCEPT ![p] = [IdleProc EXCEPT !.call = c, !.aid = aid,
                                                          !.pc = "add_lock"]]
          /\ UNCHANGED <<authd, klog>>

\* ------------------------------------------------------ Agent._add_manual
\* fcntl.lockf(lock_file, fcntl.LOCK_EX): blocks until the lock is free or
\* the caller's own
add_manual_lock(p) ==
  /\ proc[p].pc = "add_lock"
  /\ api_lock \in {0, p}
  /\ api_lock' = p
  /\ proc' = [proc EXCEPT ![p].pc = "add_read"]
  /\ UNCHANGED <<kenv, client_keys, client_keys_tmp, todo, agents_db, belongs, agent_files,
                 backup_dirs, authd, klog>>

\* "with open(common.client_keys) as f_k: ... f_k.readlines()"; the open stands
\* before the try, so its failure leaves the call with no handler run
add_manual_read(p) ==
  /\ proc[p].pc = "add_read"
  /\ UNCHANGED <<kenv, client_keys, client_keys_tmp, api_lock, todo, agents_db, belongs,
                 agent_files, backup_dirs, authd>>
  /\ IF kenv.fault = "open"
     THEN EndCall(p, proc[p].call, Raised("OSError", 0, FaultMsg))
     ELSE /\ proc' = [proc EXCEPT ![p].lines = client_keys, ![p].k = 1, ![p].last_id = 0,
                                  ![p].pc = "add_scan"]
          /\ UNCHANGED klog

\* The file object lock_file of a call that ended without closing it is
\* closed when the interpreter frees it, which drops the lock; when that
\* happens is not fixed by the code.
lock_file_collected(p) ==
  /\ proc[p].pc = "idle"
  /\ api_lock = p
  /\ api_lock' = 0
  /\ UNCHANGED <<kenv, client_keys, client_keys_tmp, proc, todo, agents_db, belongs,
                 agent_files, backup_dirs, authd, klog>>

\* The loop over the lines up to its next effect; an eviction enters
\* Agent(line_data[0]).remove(backup=True), which loads the agent first.
add_manual_scan(p) ==
  /\ proc[p].pc = "add_scan"
  /\ UNCHANGED <<kenv, client_keys, client_keys_tmp, todo, agents_db, belongs, agent_files,
                 backup_dirs, authd>>
  /\ LET c == proc[p].call
         o == Scan(proc[p].lines, proc[p].k, proc[p].last_id,
                   [name |-> c.name, ip |-> c.ip, id |-> proc[p].aid, force |-> c.force],
                   kenv.db)
     IN
     IF o.kind = "raise"
     THEN /\ EndCall(p, c, Raised("WazuhError", o.code, <<>>))
          /\ api_lock' = 0
     ELSE IF o.kind = "evict"
     THEN LET line_id == proc[p].lines[o.k][1] IN
          IF IntOf(line_id) \notin DOMAIN kenv.db
          THEN /\ EndCall(p, c, Raised("WazuhError", 1701, <<>>))
               /\ api_lock' = 0
          ELSE /\ proc' = [proc EXCEPT ![p].k = o.k, ![p].last_id = o.last_id,
                                       ![p].nested = TRUE, ![p].rid = StoredId(line_id),
                                       ![p].rbackup = TRUE, ![p].rpurge = FALSE,
                                       ![p].pc = "rm_open"]
               /\ UNCHANGED <<api_lock, klog>>
     ELSE /\ proc' = [proc EXCEPT
                        ![p].last_id = o.last_id,
                        ![p].agent_id = IF proc[p].aid = <<>> THEN zfill3(StrOf(o.last_id + 1))
                                        ELSE proc[p].aid,
                        ![p].agent_key = IF c.key = <<>> THEN GeneratedKey ELSE c.key,
                        ![p].pc = "add_copy"]
          /\ UNCHANGED <<api_lock, klog>>

\* "open(f_keys_temp, 'a').close() ... copyfile(common.client_keys, f_keys_temp)"
add_manual_copy(p) ==
  /\ proc[p].pc = "add_copy"
  /\ client_keys_tmp' = File(client_keys)
  /\ proc' = [proc EXCEPT ![p].pc = "add_write"]
  /\ UNCHANGED <<kenv, client_keys, api_lock, todo, agents_db, belongs, agent_files,
                 backup_dirs, authd, klog>>

\* add_manual_write appending the entry to the keystore itself
add_manual_write_InPlace(p) ==
  /\ proc[p].pc = "add_write"
  /\ client_keys' =
       client_keys \o
       <<Entry(proc[p].agent_id, proc[p].call.name, proc[p].call.ip, proc[p].agent_key)>>
  /\ proc' = [proc EXCEPT ![p].pc = "add_move"]
  /\ UNCHANGED <<kenv, client_keys_tmp, api_lock, todo, agents_db, belongs, agent_files,
                 backup_dirs, authd, klog>>

\* "with open(f_keys_temp, 'a') as f_kt: f_kt.write(...)"; a failure is
\* caught by "except Exception", which unlocks and raises WazuhError(1725).
add_manual_write(p) ==
  /\ proc[p].pc = "add_write"
  /\ UNCHANGED <<kenv, client_keys, todo, agents_db, belongs, agent_files, backup_dirs, authd>>
  /\ IF kenv.fault = "write"
     THEN /\ EndCall(p, proc[p].call, Raised("WazuhError", 1725, FaultMsg))
          /\ api_lock' = 0
          /\ UNCHANGED client_keys_tmp
     ELSE /\ client_keys_tmp' =
               File(client_keys_tmp.lines \o
                    <<Entry(proc[p].agent_id, proc[p].call.name, proc[p].call.ip,
                            proc[p].agent_key)>>)
          /\ proc' = [proc EXCEPT ![p].pc = "add_move"]
          /\ UNCHANGED <<api_lock, klog>>

\* "safe_move(f_keys_temp, common.client_keys, ...)", then the unlock
add_manual_move(p) ==
  /\ proc[p].pc = "add_move"
  /\ api_lock' = 0
  /\ UNCHANGED <<kenv, todo, agents_db, belongs, agent_files, backup_dirs, authd>>
  /\ IF ~client_keys_tmp.exists
     THEN /\ EndCall(p, proc[p].call, Raised("WazuhError", 1725, <<>>))
          /\ UNCHANGED <<client_keys, client_keys_tmp>>
     ELSE /\ client_keys' = client_keys_tmp.lines
          /\ client_keys_tmp' = NoFile
          /\ EndCall(p, proc[p].call, Returned(proc[p].agent_id))


\* ---------------------------------------------------------- Agent.remove
\* Agent.remove with the whole of _remove_authd, or load_info_from_db at the
\* head of _remove_manual.
remove_call(p) ==
  /\ proc[p].pc = "idle"
  /\ todo[p] # <<>>
  /\ Head(todo[p]).kind = "remove"
  /\ todo' = [todo EXCEPT ![p] = Tail(@)]
  /\ UNCHANGED <<kenv, client_keys, client_keys_tmp, api_lock, agents_db, belongs,
                 agent_files, backup_dirs>>
  /\ LET c == Head(todo[p]) IN
     IF AuthdUnavailable(c.use_only_authd, kenv.authd_running)
     THEN EndCall(p, c, Raised("WazuhInternalError", 1726, <<>>)) /\ UNCHANGED authd
     ELSE IF kenv.authd_running
     THEN /\ authd' = Append(authd, RemoveMessage(c))
          /\ \E reply \in AuthdReplies :
               EndCall(p, c, IF reply = 0 THEN Returned(<<"authd">>)
                             ELSE Raised("WazuhError", reply, <<>>))
     ELSE IF IntOf(c.id) \notin DOMAIN kenv.db
     THEN EndCall(p, c, Raised("WazuhError", 1701, <<>>)) /\ UNCHANGED authd
     ELSE /\ proc' = [proc EXCEPT ![p] = [IdleProc EXCEPT !.call = c, !.rid = StoredId(c.id),
                                                          !.rbackup = c.backup,
                                                          !.rpurge = c.purge,
                                                          !.pc = "rm_open"]]
          /\ UNCHANGED <<authd, klog>>

\* ---------------------------------------------------- Agent._remove_manual
\* an error leaves _remove_manual; inside an enroll the handler of
\* _add_manual unlocks and raises it again
RemoveFail(p, res) ==
  /\ EndCall(p, proc[p].call, res)
  /\ api_lock' = IF proc[p].nested THEN 0 ELSE api_lock

\* "with open(common.client_keys) as client_keys"
remove_manual_open(p) ==
  /\ proc[p].pc = "rm_open"
  /\ proc' = [proc EXCEPT ![p].rlines = client_keys, ![p].pc = "rm_write"]
  /\ UNCHANGED <<kenv, client_keys, client_keys_tmp, api_lock, todo, agents_db, belongs,
                 agent_files, backup_dirs, authd, klog>>

\* "open(f_keys_temp, 'w')", the loop over the lines, and the check of
\* agent_found: the temp file is written, or removed with error 1746.
remove_manual_write(p) ==
  /\ proc[p].pc = "rm_write"
  /\ UNCHANGED <<kenv, client_keys, todo, agents_db, belongs, agent_files, backup_dirs, authd>>
  /\ LET lines == proc[p].rlines IN
     IF \/ \E k \in 1..Len(lines) : ~Unpackable(lines[k])
        \/ ~agent_found(lines, proc[p].rid)
     THEN /\ client_keys_tmp' = NoFile
          /\ RemoveFail(p, Raised("WazuhInternalError", 1746, <<>>))
     ELSE /\ client_keys_tmp' = File(Rewritten(lines, proc[p].rid, proc[p].rpurge))
          /\ proc' = [proc EXCEPT ![p].pc = "rm_db"]
          /\ UNCHANGED <<api_lock, klog>>

\* "wdb_conn.delete_agents_db([self.id])" and "DELETE FROM belongs"; a
\* failure of the second raises WazuhInternalError(1747).
remove_manual_db(p) ==
  /\ proc[p].pc = "rm_db"
  /\ agents_db' = agents_db \ {proc[p].rid}
  /\ UNCHANGED <<kenv, client_keys, client_keys_tmp, todo, agent_files, backup_dirs, authd>>
  /\ IF kenv.fault = "belongs"
     THEN /\ RemoveFail(p, Raised("WazuhInternalError", 1747, FaultMsg))
          /\ UNCHANGED belongs
     ELSE /\ belongs' = belongs \ {IntOf(proc[p].rid)}
          /\ proc' = [proc EXCEPT ![p].pc = "rm_files"]
          /\ UNCHANGED <<api_lock, klog>>

\* the backup directory of the agent: the main name, or the first free
\* numbered one
BackupDir(rid, dirs) ==
  <<rid, Cardinality({j \in 1..Len(dirs) : dirs[j][1] = rid})>>

\* the rids file, the backup directory and the agent's files; a failure
\* while they are relocated raises WazuhInternalError(1748).
remove_manual_files(p) ==
  /\ proc[p].pc = "rm_files"
  /\ backup_dirs' = IF proc[p].rbackup
                    THEN Append(backup_dirs, BackupDir(proc[p].rid, backup_dirs))
                    ELSE backup_dirs
  /\ UNCHANGED <<kenv, client_keys, client_keys_tmp, todo, agents_db, belongs, authd>>
  /\ IF kenv.fault = "files"
     THEN /\ RemoveFail(p, Raised("WazuhInternalError", 1748, FaultMsg))
          /\ UNCHANGED agent_files
     ELSE /\ agent_files' = agent_files \ {proc[p].rid}
          /\ proc' = [proc EXCEPT ![p].pc = "rm_move"]
          /\ UNCHANGED <<api_lock, klog>>

\* "safe_move(f_keys_temp, common.client_keys, permissions=0o640)"; a remove
\* called by the scan of _add_manual returns into the loop.
remove_manual_move(p) ==
  /\ proc[p].pc = "rm_move"
  /\ UNCHANGED <<kenv, todo, agents_db, belongs, agent_files, backup_dirs, authd>>
  /\ IF ~client_keys_tmp.exists
     THEN /\ RemoveFail(p, Raised("WazuhInternalError", 1748, <<>>))
          /\ UNCHANGED <<client_keys, client_keys_tmp>>
     ELSE /\ client_keys' = client_keys_tmp.lines
          /\ client_keys_tmp' = NoFile
          /\ IF proc[p].nested
             THEN /\ proc' = [proc EXCEPT ![p].nested = FALSE, ![p].k = @ + 1,
                                          ![p].pc = "add_scan"]
                  /\ UNCHANGED <<api_lock, klog>>
             ELSE /\ EndCall(p, proc[p].call, Returned(<<"Agent deleted successfully.">>))
                  /\ UNCHANGED api_lock


\* ------------------------------------------------------------ inputs
NameA == <<"a">>
NameB == <<"b">>
NameC == <<"c">>
NameD == <<"d">>
ManagerName == <<"m">>

Ip1 == <<"10.0.0.1">>
Ip2 == <<"10.0.0.2">>

Id(n) == zfill3(StrOf(n))

LongKey == KeyOf(MinKeyLen, "k")
ShortKey == KeyOf(MinKeyLen - 1, "k")

\* keystores local enroll and local remove leave behind
Keystores ==
  { <<>>,
    <<Entry(Id(1), NameA, Ip1, LongKey)>>,
    <<Entry(Id(1), NameA, Ip1, LongKey), Entry(Id(2), NameB, AnyIp, LongKey)>>,
    <<Entry(Id(1), <<"!">> \o NameA, Ip1, LongKey), Entry(Id(2), NameB, Ip2, LongKey)>>,
    <<Entry(Id(1), NameA, AnyIp, LongKey), Entry(Id(3), <<"!">> \o NameB, Ip2, LongKey)>>,
    <<Entry(Id(2), <<"!">> \o NameA, Ip1, LongKey), Entry(Id(1), NameB, Ip1, LongKey),
      Entry(Id(2), NameA, Ip2, LongKey)>> }

\* one row of the agent table: 0 is a lastKeepAlive that is not set
KeyRec(name, ip, ka) == [name |-> name, ip |-> ip, lastKeepAlive |-> ka]

\* the agent table: the manager and the agents ids, agent 1 last seen at ka
KeyDb(ids, ka) ==
  [i \in ids \cup {0} |->
     IF i = 0 THEN KeyRec(ManagerName, <<"127.0.0.1">>, Now)
     ELSE IF i = 1 THEN KeyRec(NameA, Ip1, ka)
     ELSE KeyRec(NameB, Ip2, Now - limit_seconds - 2)]

\* the upgrade side at rest, while keystore calls run
UpgradeIdle ==
  Start("upgrade", ManagerId, BaseArg, BaseEnv(FileOfLen(1)), Packages(FALSE, FileOfLen(1)))

\* callers with their scripts, on a keystore and an agent table; fault names
\* the operation that fails in this run
StartKeysFault(keys, db, running, scripts, fault) ==
  /\ UpgradeIdle
  /\ GroupsIdle
  /\ PairIdle
  /\ kenv = [db |-> db, authd_running |-> running, keys |-> keys, fault |-> fault]
  /\ client_keys = keys
  /\ client_keys_tmp = NoFile
  /\ api_lock = 0
  /\ proc = [p \in Procs |-> IdleProc]
  /\ todo = [p \in Procs |-> IF p \in DOMAIN scripts THEN scripts[p] ELSE <<>>]
  /\ agents_db = {Id(i) : i \in DOMAIN db}
  /\ belongs = DOMAIN db \ {0}
  /\ agent_files = {Id(i) : i \in DOMAIN db \ {0}}
  /\ backup_dirs = <<>>
  /\ authd = <<>>
  /\ klog = <<>>

\* the same with no failing operation
StartKeys(keys, db, running, scripts) == StartKeysFault(keys, db, running, scripts, "none")

\* One enroll with every kind of argument, daemon running or not.
InitEnrollArgs ==
  \E name \in {NameA, NameC, ManagerName},
     ip \in {AnyIp, Ip1, BadIp},
     i \in {<<>>, <<"1">>, <<"5">>},
     key \in {<<>>, ShortKey, LongKey},
     force \in {0 - 1, 0},
     only \in BOOLEAN,
     running \in BOOLEAN :
    StartKeys(<<Entry(Id(1), NameA, Ip1, LongKey), Entry(Id(2), NameB, AnyIp, LongKey)>>,
              KeyDb({1, 2}, Now), running,
              <<<<EnrollCall(name, ip, i, key, force, only)>>>>)

\* One local enroll on every keystore: collisions, eviction, id assignment.
InitEnrollScan ==
  \E keys \in Keystores,
     ka \in {0, Now - limit_seconds, Now - limit_seconds - 2},
     ids \in {{1, 2, 3}, {2}},
     name \in {NameA, NameB, NameC},
     ip \in {AnyIp, Ip1, Ip2},
     i \in {<<>>, <<"0">>, <<"1">>, <<"2">>, <<"5">>},
     force \in {0 - 1, 0, limit_seconds, limit_seconds + 1} :
    StartKeys(keys, KeyDb(ids, ka), FALSE,
              <<<<EnrollCall(name, ip, i, IF i = <<>> THEN <<>> ELSE LongKey, force, FALSE)>>>>)

\* One remove on every keystore, daemon running or not.
InitRemove ==
  \E keys \in Keystores,
     ids \in {{1, 2, 3}, {2}},
     i \in {<<"0">>, <<"1">>, <<"0", "0", "2">>, <<"3">>, <<"7">>},
     backup \in BOOLEAN,
     purge \in BOOLEAN,
     only \in BOOLEAN,
     running \in BOOLEAN :
    StartKeys(keys, KeyDb(ids, Now), running, <<<<RemoveCall(i, backup, purge, only)>>>>)


\* the calls of the two-call scripts
SmallCalls ==
  {EnrollCall(name, AnyIp, i, IF i = <<>> THEN <<>> ELSE LongKey, force, FALSE) :
     name \in {NameA, NameC}, i \in {<<>>, <<"0">>, <<"2">>}, force \in {0 - 1, 0}}
  \cup {RemoveCall(i, FALSE, purge, FALSE) : i \in {<<"0">>, <<"1">>, <<"2">>}, purge \in BOOLEAN}

\* One caller making two calls in a row.
InitSequence ==
  \E keys \in {<<>>,
               <<Entry(Id(1), NameA, Ip1, LongKey)>>,
               <<Entry(Id(1), NameA, Ip1, LongKey), Entry(Id(2), NameB, AnyIp, LongKey)>>},
     c1 \in SmallCalls,
     c2 \in SmallCalls :
    StartKeys(keys, KeyDb({1, 2}, Now), FALSE, <<<<c1, c2>>>>)

\* enroll without id, key or force
Enroll(name) == EnrollCall(name, AnyIp, <<>>, <<>>, 0 - 1, FALSE)

\* Up to three callers at once on the keystore holding agent 1.
InitRace ==
  \E s1 \in {<<Enroll(NameC)>>, <<Enroll(NameC), Enroll(NameD)>>},
     s2 \in {<<RemoveCall(<<"1">>, FALSE, FALSE, FALSE)>>,
             <<RemoveCall(<<"1">>, TRUE, TRUE, FALSE)>>,
             <<Enroll(NameD)>>,
             <<EnrollCall(NameA, Ip2, <<>>, <<>>, 0, FALSE)>>},
     s3 \in {<<>>, <<RemoveCall(<<"1">>, FALSE, FALSE, FALSE)>>} :
    StartKeys(<<Entry(Id(1), NameA, Ip1, LongKey)>>, KeyDb({1, 2}, Now), FALSE, <<s1, s2, s3>>)

\* One local call during which one operation fails.
InitFaults ==
  \E keys \in Keystores,
     fault \in Faults \ {"none"},
     c \in {RemoveCall(<<"1">>, FALSE, FALSE, FALSE), RemoveCall(<<"2">>, TRUE, TRUE, FALSE),
            Enroll(NameC), EnrollCall(NameA, Ip2, <<>>, <<>>, 0, FALSE)} :
    StartKeysFault(keys, KeyDb({1, 2, 3}, Now), FALSE, <<<<c>>>>, fault)

\* keystores with lines that are no agent entries: a blank line, a comment
\* of one word, a comment of four words, an entry put aside by a leading space
MarkedKeystores ==
  LET entries == <<Entry(Id(1), NameA, Ip1, LongKey), Entry(Id(2), NameB, Ip2, LongKey)>> IN
  { << << <<>> >> >> \o entries,
    << << <<"#", "c">> >> >> \o entries,
    << <<<<"#">>, NameC, AnyIp, LongKey>> >> \o entries,
    entries \o << <<<<" ">> \o Id(3), NameC, AnyIp, LongKey>> >> }

\* One enroll or one remove on a keystore with such lines.
InitMarked ==
  \E keys \in MarkedKeystores,
     c \in {EnrollCall(NameD, AnyIp, <<>>, <<>>, 0 - 1, FALSE),
            EnrollCall(NameD, AnyIp, <<"3">>, LongKey, 0 - 1, FALSE),
            EnrollCall(NameC, AnyIp, <<>>, <<>>, 0 - 1, FALSE)}
           \cup {RemoveCall(i, FALSE, purge, FALSE) :
                   i \in {<<"1">>, <<"0", "0", "3">>}, purge \in BOOLEAN} :
    StartKeys(keys, KeyDb({1, 2, 3}, Now), FALSE, <<<<c>>>>)

\* two callers enroll while the keystore cannot be opened
InitOpenFails ==
  \E keys \in {<<>>, <<Entry(Id(1), NameA, Ip1, LongKey)>>},
     s1 \in {<<Enroll(NameC)>>, <<Enroll(NameC), Enroll(NameD)>>},
     s2 \in {<<>>, <<Enroll(NameD)>>} :
    StartKeysFault(keys, KeyDb({1, 2}, Now), FALSE, <<s1, s2>>, "open")

InitKeys ==
  InitEnrollArgs \/ InitEnrollScan \/ InitRemove \/ InitSequence \/ InitRace \/ InitFaults
    \/ InitOpenFails

NextKeys ==
  \E p \in Procs :
    \/ add(p) /\ UNCHANGED <<uvars, gvars, pvars>>
    \/ add_manual_lock(p) /\ UNCHANGED <<uvars, gvars, pvars>>
    \/ add_manual_read(p) /\ UNCHANGED <<uvars, gvars, pvars>>
    \/ lock_file_collected(p) /\ UNCHANGED <<uvars, gvars, pvars>>
    \/ add_manual_scan(p) /\ UNCHANGED <<uvars, gvars, pvars>>
    \/ add_manual_copy(p) /\ UNCHANGED <<uvars, gvars, pvars>>
    \/ add_manual_write(p) /\ UNCHANGED <<uvars, gvars, pvars>>
    \/ add_manual_move(p) /\ UNCHANGED <<uvars, gvars, pvars>>
    \/ remove_call(p) /\ UNCHANGED <<uvars, gvars, pvars>>
    \/ remove_manual_open(p) /\ UNCHANGED <<uvars, gvars, pvars>>
    \/ remove_manual_write(p) /\ UNCHANGED <<uvars, gvars, pvars>>
    \/ remove_manual_db(p) /\ UNCHANGED <<uvars, gvars, pvars>>
    \/ remove_manual_files(p) /\ UNCHANGED <<uvars, gvars, pvars>>
    \/ remove_manual_move(p) /\ UNCHANGED <<uvars, gvars, pvars>>

SpecKeys == InitKeys /\ [][NextKeys]_vars

\* the same calls, on the keystores above and on keystores with lines that
\* are no agent entries
InitMarkedKeys == InitKeys \/ InitMarked

SpecMarked == InitMarkedKeys /\ [][NextKeys]_vars

\* ===================================================== group membership
\* common.max_groups_per_multigroup, scaled down
max_groups_per_multigroup == 2

\* A group file's text is a sequence of symbols: a group name, "," or "\n".
\* A group name is the text of one symbol; the empty text is no name.
default == <<"default">>

\* str.replace('\n', '')
RemoveNewlines(s) == SelectSeq(s, LAMBDA ch : ch # "\n")

RECURSIVE lstrip(_)
lstrip(s) == IF s # <<>> /\ Head(s) = "\n" THEN lstrip(Tail(s)) ELSE s

RECURSIVE rstrip(_)
rstrip(s) == IF s # <<>> /\ s[Len(s)] = "\n" THEN rstrip(SubSeq(s, 1, Len(s) - 1)) ELSE s

\* str.strip()
strip(s) == rstrip(lstrip(s))

\* str.split(','): the text between the commas, the empty text included
RECURSIVE split(_)
split(s) ==
  IF \A i \in 1..Len(s) : s[i] # ","
  THEN <<s>>
  ELSE LET i == CHOOSE i \in 1..Len(s) : s[i] = "," /\ \A j \in 1..(i - 1) : s[j] # ","
       IN <<SubSeq(s, 1, i - 1)>> \o split(SubSeq(s, i + 1, Len(s)))

\* ','.join(group_list)
RECURSIVE join(_)
join(l) ==
  IF l = <<>> THEN <<>>
  ELSE IF Len(l) = 1 THEN l[1]
  ELSE l[1] \o <<",">> \o join(Tail(l))

\* "x in list"
InList(x, l) == \E i \in 1..Len(l) : l[i] = x

\* list.remove(x): the first occurrence goes
RECURSIVE list_remove(_, _)
list_remove(l, x) ==
  IF l = <<>> THEN <<>>
  ELSE IF Head(l) = x THEN Tail(l)
  ELSE <<Head(l)>> \o list_remove(Tail(l), x)

NoGroupFile == [exists |-> FALSE, text |-> <<>>]
GroupFile(text) == [exists |-> TRUE, text |-> text]

\* Agent.get_agents_group_file
get_agents_group_file(agent_id) ==
  IF group_files[agent_id].exists THEN strip(group_files[agent_id].text) ELSE <<>>

\* the limit test made strict
LimitReached_Strict(group_read) == Len(split(group_read)) > max_groups_per_multigroup

\* "len(group_read.split(',')) >= common.max_groups_per_multigroup"
LimitReached(group_read) == Len(split(group_read)) >= max_groups_per_multigroup

\* the limit never reached
MultigroupLimit_Never(agent_id) == FALSE

\* Agent.check_multigroup_limit
MultigroupLimit(agent_id) ==
  LET group_read == get_agents_group_file(agent_id) IN
  IF group_read # <<>> THEN LimitReached(group_read) ELSE FALSE

\* InputValidator().group(group_id): a name of one or more allowed characters
ValidGroupName(group_id) == Len(group_id) = 1 /\ group_id[1] \notin {",", "\n"}

\* Agent.group_exists once the name is valid
group_exists(group_id) == group_id \in genv.shared

\* "if not force": the agent exists, is not 000, and the group exists;
\* 0 when the checks pass, else the error code
CheckAgentAndGroup(c) ==
  IF c.force THEN 0
  ELSE IF IntOf(c.agent_id) \notin DOMAIN genv.db THEN 1701
  ELSE IF c.agent_id = <<"0", "0", "0">> THEN 1703
  ELSE IF ~ValidGroupName(c.group_id) THEN 1722
  ELSE IF ~group_exists(c.group_id) THEN 1710
  ELSE 0

\* the status WazuhDBQueryAgents computes for the agent with integer id i
StatusOf(i) ==
  calculate_status(genv.db[i].lastKeepAlive, genv.db[i].version = NoVersion, genv.today)

GNoCall ==
  [kind |-> "none", agent_id |-> <<>>, group_id |-> <<>>, force |-> FALSE, replace |-> FALSE,
   replace_list |-> {}, operator |-> "", value |-> ""]

\* Agent.add_group_to_agent(group_id, agent_id, force, replace, replace_list)
AddGroup(group_id, agent_id, force, replace, replace_list) ==
  [GNoCall EXCEPT !.kind = "add", !.agent_id = agent_id, !.group_id = group_id,
                  !.force = force, !.replace = replace, !.replace_list = replace_list]

\* Agent.unset_single_group_agent(agent_id, group_id, force)
UnsetGroup(agent_id, group_id, force) ==
  [GNoCall EXCEPT !.kind = "unset", !.agent_id = agent_id, !.group_id = group_id,
                  !.force = force]

\* Agent(agent_id).get_basic_information()
GetInfo(agent_id) == [GNoCall EXCEPT !.kind = "info", !.agent_id = agent_id]

GIdleProc ==
  [call |-> GNoCall, pc |-> "idle", multigroup_name |-> <<>>, set_default |-> FALSE,
   before |-> NoGroupFile]

\* the call of caller p ends with outcome res; the file it found, the file
\* it leaves and the text it wrote are logged with it
GEndCall(p, c, res, before, after) ==
  /\ glog' = Append(glog, [p |-> p, call |-> c, result |-> res, before |-> before,
                           after |-> after,
                           written |-> IF res.kind = "return" /\ c.kind # "info"
                                       THEN gproc[p].multigroup_name ELSE <<>>])
  /\ gproc' = [gproc EXCEPT ![p] = GIdleProc]

\* the "default when it is the last group" test dropped
LastDefault_Never(group_id, group_list) == FALSE

\* "group_id == 'default' and len(group_list) == 1"
LastDefault(group_id, group_list) == group_id = default /\ Len(group_list) = 1

\* "agent_groups.issubset(set(replace_list))"
Replaceable(agent_groups, replace_list) == agent_groups \subseteq replace_list

\* ------------------------------------------------ Agent.add_group_to_agent
\* add_group_to_agent up to the check of the limit: the checks of agent and
\* group, the read of the group file and the new value of multigroup_name.
add_group_to_agent(p) ==
  /\ gproc[p].pc = "idle"
  /\ gtodo[p] # <<>>
  /\ Head(gtodo[p]).kind = "add"
  /\ gtodo' = [gtodo EXCEPT ![p] = Tail(@)]
  /\ UNCHANGED <<genv, group_files>>
  /\ LET c == Head(gtodo[p])
         f == group_files[c.agent_id]
         code == CheckAgentAndGroup(c)
         multigroup_name == RemoveNewlines(f.text)
         agent_groups == {split(multigroup_name)[i] : i \in 1..Len(split(multigroup_name))}
     IN
     IF code # 0
     THEN GEndCall(p, c, Raised("WazuhError", code, <<>>), f, f)
     ELSE IF ~f.exists
     THEN IF IntOf(c.agent_id) \notin DOMAIN genv.db
          THEN GEndCall(p, c, Raised("WazuhError", 1701, <<>>), f, f)
          ELSE IF StatusOf(IntOf(c.agent_id)) = "never_connected"
          THEN GEndCall(p, c, Raised("WazuhError", 1753, <<>>), f, f)
          ELSE GEndCall(p, c, Raised("WazuhInternalError", 1005, <<>>), f, f)
     ELSE IF c.replace /\ ~Replaceable(agent_groups, c.replace_list)
     THEN GEndCall(p, c, Raised("WazuhError", 1752, <<>>), f, f)
     ELSE IF ~c.replace /\ InList(c.group_id, split(multigroup_name))
     THEN GEndCall(p, c, Raised("WazuhError", 1751, <<>>), f, f)
     ELSE /\ gproc' = [gproc EXCEPT ![p] =
                         [GIdleProc EXCEPT
                            !.call = c, !.before = f, !.pc = "limit",
                            !.multigroup_name =
                              IF c.replace THEN c.group_id
                              ELSE (IF multigroup_name # <<>> THEN multigroup_name \o <<",">>
                                    ELSE <<>>) \o c.group_id]]
          /\ UNCHANGED glog

\* "if Agent.check_multigroup_limit(agent_id): raise WazuhError(1737)": the
\* group file is read once more
check_multigroup_limit(p) ==
  /\ gproc[p].pc = "limit"
  /\ UNCHANGED <<genv, group_files, gtodo>>
  /\ IF MultigroupLimit(gproc[p].call.agent_id)
     THEN GEndCall(p, gproc[p].call, Raised("WazuhError", 1737, <<>>), gproc[p].before,
                   group_files[gproc[p].call.agent_id])
     ELSE /\ gproc' = [gproc EXCEPT ![p].pc = "open"]
          /\ UNCHANGED glog

\* ---------------------------------------------- Agent.set_agent_group_file
\* "open(agent_group_path, 'w')": the file is created or truncated
set_agent_group_file_open(p) ==
  /\ gproc[p].pc = "open"
  /\ group_files' = [group_files EXCEPT ![gproc[p].call.agent_id] = GroupFile(<<>>)]
  /\ gproc' = [gproc EXCEPT ![p].pc = "write"]
  /\ UNCHANGED <<genv, gtodo, glog>>

\* the text of a file after s was written at its start
WrittenOver(text, s) == s \o SubSeq(text, Len(s) + 1, Len(text))

\* "f_group.write(group_id)" and the close: the text goes to the start of the
\* file, over whatever another writer has put there since the truncation
set_agent_group_file_write(p) ==
  /\ gproc[p].pc = "write"
  /\ LET c == gproc[p].call
         after == GroupFile(WrittenOver(group_files[c.agent_id].text, gproc[p].multigroup_name))
     IN
     /\ group_files' = [group_files EXCEPT ![c.agent_id] = after]
     /\ GEndCall(p, c,
                 Returned(IF c.kind = "add" THEN <<"assigned">>
                          ELSE IF gproc[p].set_default THEN <<"removed", "reassigned">>
                          ELSE <<"removed">>),
                 gproc[p].before, after)
  /\ UNCHANGED <<genv, gtodo>>

\* ------------------------------------------ Agent.unset_single_group_agent
\* unset_single_group_agent up to the write: the checks, the read of the
\* group file and the new value of multigroup_name.
unset_single_group_agent(p) ==
  /\ gproc[p].pc = "idle"
  /\ gtodo[p] # <<>>
  /\ Head(gtodo[p]).kind = "unset"
  /\ gtodo' = [gtodo EXCEPT ![p] = Tail(@)]
  /\ UNCHANGED <<genv, group_files>>
  /\ LET c == Head(gtodo[p])
         f == group_files[c.agent_id]
         code == CheckAgentAndGroup(c)
         group_list == split(get_agents_group_file(c.agent_id))
         removed == list_remove(group_list, c.group_id)
     IN
     IF code # 0
     THEN GEndCall(p, c, Raised("WazuhError", code, <<>>), f, f)
     ELSE IF ~InList(c.group_id, group_list)
     THEN GEndCall(p, c, Raised("WazuhError", 1734, <<>>), f, f)
     ELSE IF LastDefault(c.group_id, group_list)
     THEN GEndCall(p, c, Raised("WazuhError", 1745, <<>>), f, f)
     ELSE /\ gproc' = [gproc EXCEPT ![p] =
                         [GIdleProc EXCEPT
                            !.call = c, !.before = f, !.pc = "open",
                            !.set_default = (removed = <<>>),
                            !.multigroup_name =
                              IF Len(removed) > 1 THEN join(removed)
                              ELSE IF removed = <<>> THEN default
                              ELSE removed[1]]]
          /\ UNCHANGED glog

\* ------------------------------------------- Agent.get_basic_information
\* load_info_from_db and the status format_fields derives for the agent
get_basic_information(p) ==
  /\ gproc[p].pc = "idle"
  /\ gtodo[p] # <<>>
  /\ Head(gtodo[p]).kind = "info"
  /\ gtodo' = [gtodo EXCEPT ![p] = Tail(@)]
  /\ UNCHANGED <<genv, group_files>>
  /\ LET c == Head(gtodo[p])
         f == group_files[c.agent_id]
     IN
     IF IntOf(c.agent_id) \notin DOMAIN genv.db
     THEN GEndCall(p, c, Raised("WazuhError", 1701, <<>>), f, f)
     ELSE GEndCall(p, c, Returned(<<StatusOf(IntOf(c.agent_id))>>), f, f)

\* ------------------------------------------------------------ inputs
\* the group names with a directory under common.shared_path
GroupNames == <<default, <<"g1">>, <<"g2">>, <<"g3">>, <<"g4">>>>

\* a well-formed name without directory
MissingGroup == <<"gx">>

\* the text of a group file holding the first n groups
Groups(n) == join(SubSeq(GroupNames, 1, n))

\* the first group names beyond a full file
Extra1 == GroupNames[max_groups_per_multigroup + 1]
Extra2 == GroupNames[max_groups_per_multigroup + 2]

\* the agent ids the calls name: the manager, an agent with a group file, an
\* agent that never connected and has none, an id the agent table lacks
\* ------------------------------------------------- the status filter
\* WazuhDBQueryAgents(filters={'status': value}) with the operator of the
\* filter, run on the agent table
Query(operator, value) == [GNoCall EXCEPT !.kind = "query", !.operator = operator, !.value = value]

\* SQL's three truth values: true, false and unknown (NULL)
B3(b) == IF b THEN "T" ELSE "F"
Not3(x) == IF x = "T" THEN "F" ELSE IF x = "F" THEN "T" ELSE "N"
And3(x, y) == IF x = "F" \/ y = "F" THEN "F" ELSE IF x = "T" /\ y = "T" THEN "T" ELSE "N"
Or3(x, y) == IF x = "T" \/ y = "T" THEN "T" ELSE IF x = "F" /\ y = "F" THEN "F" ELSE "N"

\* a comparison of the column last_keepalive, NULL when the agent never
\* reported (lastKeepAlive 0 in the table of the model)
KeepaliveGe(rec, t) == IF rec.lastKeepAlive = 0 THEN "N" ELSE B3(rec.lastKeepAlive >= t)
KeepaliveLt(rec, t) == IF rec.lastKeepAlive = 0 THEN "N" ELSE B3(rec.lastKeepAlive < t)

\* the condition _filter_status appends to the query, evaluated on the row
\* of agent i: ' NOT ' is put in front of the text, where it negates the
\* first operand only
FilterText(operator, value, i, rec, time_active) ==
  LET Neg(x) == IF operator = "!=" THEN Not3(x) ELSE x IN
  IF value = "active"
  THEN Or3(Neg(And3(KeepaliveGe(rec, time_active), B3(rec.version # NoVersion))), B3(i = 0))
  ELSE IF value = "disconnected" THEN Neg(KeepaliveLt(rec, time_active))
  ELSE IF value = "never_connected" THEN And3(Neg(B3(rec.lastKeepAlive = 0)), B3(i # 0))
  ELSE And3(Neg(B3(rec.lastKeepAlive # 0)), B3(rec.version = NoVersion))

StatusValues == {"active", "disconnected", "never_connected", "pending"}

\* The query with a status filter: the rows the condition holds for, each
\* with the status _format_data_into_dictionary computes for it.
filter_status(p) ==
  /\ gproc[p].pc = "idle"
  /\ gtodo[p] # <<>>
  /\ Head(gtodo[p]).kind = "query"
  /\ gtodo' = [gtodo EXCEPT ![p] = Tail(@)]
  /\ UNCHANGED <<genv, group_files>>
  /\ LET c == Head(gtodo[p])
         time_active == genv.today - limit_seconds
         rows == {i \in DOMAIN genv.db :
                    FilterText(c.operator, c.value, i, genv.db[i], time_active) = "T"}
     IN
     IF c.value \notin StatusValues
     THEN GEndCall(p, c, Raised("WazuhError", 1729, <<>>), NoGroupFile, NoGroupFile)
     ELSE GEndCall(p, c, Returned({[id |-> i, status |-> StatusOf(i)] : i \in rows}),
                   NoGroupFile, NoGroupFile)

GroupAgents == {Id(0), Id(1), Id(2), Id(7)}

GroupRec(ka, version) == [lastKeepAlive |-> ka, version |-> version]

\* the agent table: the manager, agent 1 last seen at ka, agent 2 never seen
GroupDb(ka, version) ==
  [i \in {0, 1, 2} |->
     IF i = 0 THEN GroupRec(Now, V360)
     ELSE IF i = 1 THEN GroupRec(ka, version)
     ELSE GroupRec(0, NoVersion)]

\* callers with their scripts; agent 1 has the group file text
StartGroups(text, db, today, scripts) ==
  /\ UpgradeIdle
  /\ KeysIdle
  /\ PairIdle
  /\ genv = [db |-> db, shared |-> {GroupNames[i] : i \in 1..Len(GroupNames)}, today |-> today]
  /\ group_files = [a \in GroupAgents |-> IF a = Id(1) THEN GroupFile(text) ELSE NoGroupFile]
  /\ gproc = [p \in Procs |-> GIdleProc]
  /\ gtodo = [p \in Procs |-> IF p \in DOMAIN scripts THEN scripts[p] ELSE <<>>]
  /\ glog = <<>>

\* the calls of the two-call scripts, all on agent 1
GroupCalls ==
  {AddGroup(g, Id(1), FALSE, FALSE, {}) : g \in {default, Extra1, Extra2}}
  \cup {AddGroup(g, Id(1), FALSE, TRUE, rl) :
          g \in {default, Extra1},
          rl \in {{default}, {GroupNames[i] : i \in 1..Len(GroupNames)}}}
  \cup {UnsetGroup(Id(1), g, FALSE) : g \in {default, GroupNames[2], Extra1}}

\* One caller making two calls in a row on a well-formed group file.
InitGroupCalls ==
  \E text \in {Groups(n) : n \in 1..max_groups_per_multigroup}
              \cup {GroupNames[2], Groups(max_groups_per_multigroup) \o <<"\n">>},
     c1 \in GroupCalls,
     c2 \in GroupCalls :
    StartGroups(text, GroupDb(Now, V360), Now, <<<<c1, c2>>>>)

\* One call with every kind of agent, group and force, alone or after a
\* forced unset of the empty name.
InitGroupArgs ==
  \E a \in GroupAgents,
     g \in {default, GroupNames[2], MissingGroup, <<>>},
     force \in BOOLEAN,
     c \in {AddGroup(default, Id(1), FALSE, FALSE, {}), UnsetGroup(Id(1), default, FALSE)},
     first \in BOOLEAN :
    StartGroups(default, GroupDb(Now, V360), Now,
                <<(IF first THEN <<UnsetGroup(a, <<>>, TRUE)>> ELSE <<>>)
                  \o <<[c EXCEPT !.agent_id = a, !.group_id = g, !.force = force]>>>>)

\* The status of agent 1 for every kind of heartbeat.
InitStatus ==
  \E today \in {Now, Now + 1} :
  \E ka \in {0, today - limit_seconds - 1, today - limit_seconds, today - 1, today + 1},
     version \in {NoVersion, V360} :
    StartGroups(default, GroupDb(ka, version), today, <<<<GetInfo(Id(1))>>>>)

\* A query with every status filter on every kind of record of agent 1 and
\* a manager record (id 0) with a fresh or an old heartbeat.
InitQuery ==
  \E today \in {Now, Now + 1} :
  \E ka \in {0, today - limit_seconds - 1, today - limit_seconds, today - 1},
     mka \in {today, today - limit_seconds - 1},
     version \in {NoVersion, V360},
     operator \in {"=", "!="},
     value \in StatusValues \cup {"unknown"} :
    StartGroups(default, [GroupDb(ka, version) EXCEPT ![0] = GroupRec(mka, V360)], today,
                <<<<Query(operator, value)>>>>)

\* Up to three callers at once on the group file of agent 1.
InitGroupRace ==
  \E text \in {Groups(max_groups_per_multigroup), default},
     s1 \in {<<AddGroup(Extra1, Id(1), FALSE, FALSE, {})>>,
             <<AddGroup(Extra2, Id(1), FALSE, FALSE, {})>>},
     s2 \in {<<UnsetGroup(Id(1), GroupNames[2], FALSE)>>,
             <<UnsetGroup(Id(1), default, FALSE)>>,
             <<AddGroup(Extra1, Id(1), FALSE, FALSE, {})>>},
     s3 \in {<<>>,
             <<AddGroup(Extra2, Id(1), FALSE, FALSE, {})>>,
             <<UnsetGroup(Id(1), GroupNames[2], FALSE)>>} :
    StartGroups(text, GroupDb(Now, V360), Now, <<s1, s2, s3>>)

InitGroups == InitGroupCalls \/ InitGroupArgs \/ InitStatus \/ InitQuery \/ InitGroupRace

NextGroups ==
  \E p \in Procs :
    \/ add_group_to_agent(p) /\ UNCHANGED <<uvars, kvars, pvars>>
    \/ check_multigroup_limit(p) /\ UNCHANGED <<uvars, kvars, pvars>>
    \/ set_agent_group_file_open(p) /\ UNCHANGED <<uvars, kvars, pvars>>
    \/ set_agent_group_file_write(p) /\ UNCHANGED <<uvars, kvars, pvars>>
    \/ unset_single_group_agent(p) /\ UNCHANGED <<uvars, kvars, pvars>>
    \/ get_basic_information(p) /\ UNCHANGED <<uvars, kvars, pvars>>
    \/ filter_status(p) /\ UNCHANGED <<uvars, kvars, pvars>>

SpecGroups == InitGroups /\ [][NextGroups]_vars



\* ==================================================== concurrent upgrades
\* Two callers run Agent.upgrade for different agents at the same time. The
\* calls are taken up where they start to share something: after the
\* preconditions and the version selection of _get_wpk_file, with the package
\* file name and the manifest digest chosen. Each caller has its own request
\* socket; the agent behind it stores what it is sent and answers "com sha1"
\* with the digest of what it stored. The package repository serves the
\* package (its failures are part of get_wpk_fetch above).
Callers == {1, 2}

\* the package the repository serves
RepoPkg == FileOfLen(2)

NoPkgFile == [exists |-> FALSE, content |-> <<>>]
PkgFile(content) == [exists |-> TRUE, content |-> content]

\* one exchange on a caller's request socket
Exchange(c, cmd, payload, installer, resp) ==
  [id |-> zfill3(c.agent_id), cmd |-> cmd, file |-> c.wpk_file, payload |-> payload,
   installer |-> installer, resp |-> resp]

\* what the agent of call c has stored: the payloads of the writes it was sent
RECURSIVE Stored_by_agent(_)
Stored_by_agent(q) ==
  IF q = <<>> THEN <<>>
  ELSE (IF Head(q).cmd = "write" THEN Head(q).payload ELSE <<>>) \o Stored_by_agent(Tail(q))

\* the response to a command of call c: err for the command the call's agent
\* refuses, else ok, and for "com sha1" ok with the digest of what it stored
Answer(c, cmd, q) ==
  IF c.fail_at = cmd THEN ErrBusy
  ELSE IF cmd = "sha1" THEN OKSP \o Sha1(Stored_by_agent(q))
  ELSE OK

UEnd(p, res) == ucall' = [ucall EXCEPT ![p].pc = "done", ![p].result = res]

\* _get_wpk_file, "If WPK is already downloaded": reuse the local file when
\* its digest is the manifest's, else GET the package.
pair_reuse_or_get(p) ==
  LET c == ucall[p]
      f == upgrade_dir[c.wpk_file]
  IN
  /\ c.pc = "fetch"
  /\ UNCHANGED <<upgrade_dir, usock>>
  /\ IF f.exists /\ Sha1(f.content) = c.agent_new_shasum
     THEN ucall' = [ucall EXCEPT ![p].pc = "send", ![p].file_sha1 = Sha1(f.content)]
     ELSE ucall' = [ucall EXCEPT ![p].pc = "dl_open", ![p].got = TRUE]

\* "with open(wpk_file_path, 'wb') as fd": the file is created or truncated.
pair_download_open(p) ==
  LET c == ucall[p] IN
  /\ c.pc = "dl_open"
  /\ upgrade_dir' = [upgrade_dir EXCEPT ![c.wpk_file] = PkgFile(<<>>)]
  /\ ucall' = [ucall EXCEPT ![p].pc = "dl_close"]
  /\ UNCHANGED usock

\* The end of the with block: the body, gathered in the writer's buffer, is
\* written from offset 0 of the file as it is then and the file closed.
pair_download_close(p) ==
  LET c == ucall[p]
      f == upgrade_dir[c.wpk_file]
  IN
  /\ c.pc = "dl_close"
  /\ upgrade_dir' = [upgrade_dir EXCEPT ![c.wpk_file] = PkgFile(WrittenOver(f.content, RepoPkg))]
  /\ ucall' = [ucall EXCEPT ![p].pc = "dl_verify"]
  /\ UNCHANGED usock

\* "Get SHA1 file sum" of the downloaded file and compare.
pair_download_verify(p) ==
  LET c == ucall[p]
      f == upgrade_dir[c.wpk_file]
  IN
  /\ c.pc = "dl_verify"
  /\ UNCHANGED <<upgrade_dir, usock>>
  /\ IF Sha1(f.content) # c.agent_new_shasum
     THEN UEnd(p, Raised("WazuhInternalError", 1714, <<>>))
     ELSE ucall' = [ucall EXCEPT ![p].pc = "send", ![p].file_sha1 = Sha1(f.content)]

\* the open commands of the open loop from the turn with this counter on
RECURSIVE OpenTurns(_, _, _)
OpenTurns(c, q, cnt) ==
  LET r == Answer(c, "open", q) IN
  IF OpenAgain(r, cnt, c.timeout)
  THEN <<Exchange(c, "open", <<>>, "", r)>> \o OpenTurns(c, q, cnt + 1)
  ELSE <<>>

\* _send_wpk_file from "Sending reset lock timeout" to the second
\* lock_restart: commands on the caller's own socket.
pair_send_start(p) ==
  LET c == ucall[p]
      q == usock[p]
      r1 == Answer(c, "lock_restart", q)
      r2 == Answer(c, "open", q)
      lock == <<Exchange(c, "lock_restart", <<>>, "", r1)>>
      opens == <<Exchange(c, "open", <<>>, "", r2)>> \o OpenTurns(c, q, 0)
  IN
  /\ c.pc = "send"
  /\ UNCHANGED upgrade_dir
  /\ IF ~StartsWith(r1, OK)
     THEN /\ usock' = [usock EXCEPT ![p] = q \o lock]
          /\ UEnd(p, Raised("WazuhException", 1715, ReplaceErr(r1)))
     ELSE IF ~StartsWith(r2, OK)
     THEN /\ usock' = [usock EXCEPT ![p] = q \o lock \o opens]
          /\ UEnd(p, Raised("WazuhInternalError", 1715, ReplaceErr(r2)))
     ELSE /\ usock' = [usock EXCEPT ![p] = q \o lock \o opens \o lock]
          /\ ucall' = [ucall EXCEPT ![p].pc = "read"]

\* "Sending file to agent": the package file is opened and its first chunk
\* read.
pair_first_read(p) ==
  LET c == ucall[p]
      chunk == ReadChunk(upgrade_dir[c.wpk_file].content, 0, c.chunk_size)
  IN
  /\ c.pc = "read"
  /\ ucall' = [ucall EXCEPT ![p].pc = "write", ![p].bytes_read = chunk, ![p].fpos = Len(chunk)]
  /\ UNCHANGED <<upgrade_dir, usock>>

\* One turn of the transfer loop: the chunk is written to the agent and the
\* next one read from the file as it is then.
pair_write(p) ==
  LET c == ucall[p]
      r == Answer(c, "write", usock[p])
      chunk == ReadChunk(upgrade_dir[c.wpk_file].content, c.fpos, c.chunk_size)
  IN
  /\ c.pc = "write"
  /\ c.bytes_read # <<>>
  /\ UNCHANGED upgrade_dir
  /\ usock' = [usock EXCEPT ![p] = Append(@, Exchange(c, "write", c.bytes_read, "", r))]
  /\ IF ~StartsWith(r, OK)
     THEN UEnd(p, Raised("WazuhInternalError", 1715, ReplaceErr(r)))
     ELSE ucall' = [ucall EXCEPT ![p].bytes_read = chunk, ![p].fpos = c.fpos + Len(chunk)]

\* After the transfer loop: close, sha1 and its comparison, then upgrade's
\* "Send upgrading command": commands on the caller's own socket.
pair_send_end(p) ==
  LET c == ucall[p]
      q == usock[p]
      r1 == Answer(c, "close", q)
      r2 == Answer(c, "sha1", q)
      r3 == Answer(c, "upgrade", q)
      close == <<Exchange(c, "close", <<>>, "", r1)>>
      sha1 == <<Exchange(c, "sha1", <<>>, "", r2)>>
      upgrade == <<Exchange(c, "upgrade", <<>>, DefaultInstaller(c.os), r3)>>
  IN
  /\ c.pc = "write"
  /\ c.bytes_read = <<>>
  /\ UNCHANGED upgrade_dir
  /\ IF ~StartsWith(r1, OK)
     THEN /\ usock' = [usock EXCEPT ![p] = q \o close]
          /\ UEnd(p, Raised("WazuhInternalError", 1715, ReplaceErr(r1)))
     ELSE IF ~DigestAccepted(r2, c.file_sha1)
     THEN /\ usock' = [usock EXCEPT ![p] = q \o close \o sha1]
          /\ UEnd(p, Raised("WazuhInternalError", 1715, ReplaceErr(r2)))
     ELSE /\ usock' = [usock EXCEPT ![p] = q \o close \o sha1 \o upgrade]
          /\ UEnd(p, DispatchResult(r3))

\* ---------------------------------------------------------------- inputs
FailAts == {"none", "lock_restart", "open", "write", "close", "sha1", "upgrade"}

PkgName(os) == WpkFileName(NoVersion, V3100, os)

\* the upgrade call of one caller on its agent, past the selection
UpgradeCall(agent_id, os, fail_at) ==
  [agent_id |-> agent_id, os |-> os, wpk_file |-> PkgName(os),
   agent_new_shasum |-> Sha1(RepoPkg), fail_at |-> fail_at, chunk_size |-> 1, timeout |-> 1,
   pc |-> "fetch", got |-> FALSE, file_sha1 |-> <<>>, bytes_read |-> <<>>, fpos |-> 0,
   result |-> NoResult]

\* a caller that makes no call
NoUpgrade == [UpgradeCall(<<>>, Ubuntu, "none") EXCEPT !.pc = "idle"]

\* the package file of every name as found: absent, good or stale
FoundPkg(found) ==
  IF found = "absent" THEN NoPkgFile
  ELSE IF found = "good" THEN PkgFile(RepoPkg)
  ELSE PkgFile(Corrupt(RepoPkg))

StartPair(c1, c2, found) ==
  /\ UpgradeIdle /\ KeysIdle /\ GroupsIdle
  /\ upgrade_dir = [n \in {PkgName(Ubuntu), PkgName(Windows6)} |-> FoundPkg(found)]
  /\ ucall = (1 :> c1) @@ (2 :> c2)
  /\ usock = (1 :> <<>>) @@ (2 :> <<>>)

\* one call of agent 003 alone
InitAlone ==
  \E f \in FailAts, found \in {"absent", "good", "stale"}, os \in {Ubuntu, Windows6} :
    StartPair(UpgradeCall(<<"3">>, os, f), NoUpgrade, found)

\* calls for agents 003 and 004 at the same time, of the same platform (one
\* package file for both) or not
InitPair ==
  \E f1 \in FailAts, f2 \in FailAts, found \in {"absent", "good", "stale"},
     os \in {Ubuntu, Windows6} :
    StartPair(UpgradeCall(<<"3">>, Ubuntu, f1), UpgradeCall(<<"4">>, os, f2), found)

InitUpgrades == InitAlone \/ InitPair

NextUpgrades ==
  \/ \E p \in Callers : pair_reuse_or_get(p) /\ UNCHANGED <<uvars, kvars, gvars>>
  \/ \E p \in Callers : pair_download_open(p) /\ UNCHANGED <<uvars, kvars, gvars>>
  \/ \E p \in Callers : pair_download_close(p) /\ UNCHANGED <<uvars, kvars, gvars>>
  \/ \E p \in Callers : pair_download_verify(p) /\ UNCHANGED <<uvars, kvars, gvars>>
  \/ \E p \in Callers : pair_send_start(p) /\ UNCHANGED <<uvars, kvars, gvars>>
  \/ \E p \in Callers : pair_first_read(p) /\ UNCHANGED <<uvars, kvars, gvars>>
  \/ \E p \in Callers : pair_write(p) /\ UNCHANGED <<uvars, kvars, gvars>>
  \/ \E p \in Callers : pair_send_end(p) /\ UNCHANGED <<uvars, kvars, gvars>>

SpecUpgrades == InitUpgrades /\ [][NextUpgrades]_vars

\* ================================================================== claims
\* the response resp is "ok <d>", alone or followed by a space and more
CarriesDigest(resp, d) ==
  /\ StartsWith(resp, OKSP \o d)
  /\ (Len(resp) = Len(OKSP) + Len(d) \/ resp[Len(OKSP) + Len(d) + 1] = " ")

\* the requests of one command, in send order
Requests(cmd) == SelectSeq(sent, LAMBDA q : q.cmd = cmd)

\* the positions in sent of one command
Positions(cmd) == {i \in 1..Len(sent) : sent[i].cmd = cmd}

RECURSIVE Payloads(_)
Payloads(w) == IF w = <<>> THEN <<>> ELSE Head(w).payload \o Payloads(Tail(w))

\* C1: in upgrade, "com upgrade" is sent only right after a "com sha1" whose
\* reply carried the digest of the local package file; a "com sha1" reply
\* that does not carry it is the last exchange of the call, which has raised
\* (ABORTED) without any "started" notification (never SENT).
C1_DispatchOnlyAfterVerify ==
  op = "upgrade" =>
    /\ \A i \in Positions("upgrade") :
         /\ i > 1
         /\ sent[i - 1].cmd = "sha1"
         /\ CarriesDigest(recv[i - 1], Sha1(disk[wpk_file]))
    /\ \A j \in Positions("sha1") :
         ~CarriesDigest(recv[j], Sha1(disk[wpk_file])) =>
           /\ j = Len(sent)
           /\ pc = "done"
           /\ result.kind = "raise" /\ result.code = 1715
           /\ notif = <<>>

\* C1 witness: a package of two chunks was transferred and closed, the agent
\* answered "com sha1" with another digest, and the call has raised.
C1_Witness ==
  /\ op = "upgrade"
  /\ Len(Requests("write")) >= 2
  /\ Positions("sha1") # {}
  /\ recv[Len(recv)] = OKSP \o WrongDigest
  /\ result.kind = "raise"

\* C2: in upgrade the commands follow the order lock_restart, open (one or
\* more), lock_restart, write (zero or more), close, sha1, upgrade; each
\* command that follows another follows an ok response, except an open
\* re-sent after an err response; a call whose last response is not ok and
\* that is not inside the open loop has raised.
C2_CommandOrder ==
  op = "upgrade" =>
    /\ (sent # <<>> => sent[1].cmd = "lock_restart")
    /\ \A i \in 1..(Len(sent) - 1) :
         LET c == sent[i].cmd
             n == sent[i + 1].cmd
             ok == StartsWith(recv[i], OK)
         IN
         \/ c = "lock_restart" /\ i = 1 /\ n = "open" /\ ok
         \/ c = "open" /\ n = "open" /\ StartsWith(recv[i], ERR)
         \/ c = "open" /\ n = "lock_restart" /\ ok
         \/ c = "lock_restart" /\ i > 1 /\ n \in {"write", "close"} /\ ok
         \/ c = "write" /\ n \in {"write", "close"} /\ ok
         \/ c = "close" /\ n = "sha1" /\ ok
         \/ c = "sha1" /\ n = "upgrade" /\ ok
    /\ (sent # <<>> /\ ~StartsWith(recv[Len(recv)], OK) /\ pc # "open_loop") =>
         (pc = "done" /\ result.kind = "raise")

\* C2 witness: a complete run with a retried open and two writes, ended by
\* "com upgrade".
C2_Witness ==
  /\ op = "upgrade"
  /\ Len(Requests("open")) >= 2
  /\ Len(Requests("write")) >= 2
  /\ sent[Len(sent)].cmd = "upgrade"
  /\ result.kind = "return"

\* C3: the payloads of the write commands, concatenated in send order, are a
\* prefix of the source file and, once "close" is sent, the whole file, in
\* exactly ceil(size / chunk_size) commands; each command carries between 1
\* and chunk_size bytes, only the last may be short, and the declared length
\* is the length of the payload.
C3_ChunksRebuildFile ==
  (op \in {"upgrade", "upgrade_custom"} /\ (Positions("write") # {} \/ Positions("close") # {})) =>
    LET file == disk[wpk_file]
        w == Requests("write")
        all == Payloads(w)
    IN
    /\ \A k \in 1..Len(w) :
         /\ w[k].n = Len(w[k].payload)
         /\ Len(w[k].payload) >= 1
         /\ Len(w[k].payload) <= ChunkSize
         /\ (k < Len(w) => Len(w[k].payload) = ChunkSize)
    /\ Len(all) <= Len(file)
    /\ all = SubSeq(file, 1, Len(all))
    /\ Positions("close") # {} =>
         /\ all = file
         /\ Len(w) = (Len(file) + ChunkSize - 1) \div ChunkSize

\* C3 witness: a file whose size is no multiple of the chunk size was sent in
\* at least two writes and closed.
C3_Witness ==
  /\ op \in {"upgrade", "upgrade_custom"}
  /\ Positions("close") # {}
  /\ Len(Requests("write")) >= 2
  /\ Len(disk[wpk_file]) % ChunkSize # 0

\* C4: open is sent at most timeout + 1 times; an open follows an open only
\* after an err response; when timeout + 1 opens were all answered err and the
\* loop is left, the call has raised and the last open is the last command
\* sent; a command other than open follows an open only after an ok response.
C4_OpenRetries ==
  op \in {"upgrade", "upgrade_custom"} =>
    LET opens == Positions("open") IN
    /\ Cardinality(opens) <= arg.timeout + 1
    /\ \A i \in opens : (i + 1) \in opens => StartsWith(recv[i], ERR)
    /\ \A i \in opens : StartsWith(recv[i], OK) => (i + 1) \notin opens
    /\ \A i \in opens : (i < Len(sent) /\ (i + 1) \notin opens) => StartsWith(recv[i], OK)
    /\ ( /\ Cardinality(opens) = arg.timeout + 1
         /\ \A i \in opens : StartsWith(recv[i], ERR)
         /\ pc \notin {"open_loop", "c_open_loop"} ) =>
         /\ pc = "done"
         /\ result.kind = "raise" /\ result.code = 1715
         /\ sent[Len(sent)].cmd = "open"

\* C4 witness: with a budget of two retries, three opens were all answered err
\* and the call has raised.
C4_Witness ==
  /\ op = "upgrade"
  /\ arg.timeout = 2
  /\ Cardinality(Positions("open")) = 3
  /\ \A i \in Positions("open") : StartsWith(recv[i], ERR)
  /\ result.kind = "raise"


\* C5 as claimed: an upgrade call that raised after a request-socket command
\* was sent has emitted an "aborted" notification.
C5_Claimed ==
  (op = "upgrade" /\ result.kind = "raise" /\ sent # <<>>) =>
    (notif # <<>> /\ notif[Len(notif)].kind = "aborted")

\* C5 as amended: an upgrade call that raised after a request-socket command
\* was sent has emitted a notification exactly when the failed command is
\* "com upgrade" (DISPATCH): then it is one "aborted" datagram carrying the
\* response without its "err " prefix; a failure at LOCK, OPEN, TRANSFER,
\* CLOSE or VERIFY has emitted none.
C5_AbortNoticeOnlyAtDispatch ==
  (op = "upgrade" /\ result.kind = "raise" /\ sent # <<>>) =>
    IF sent[Len(sent)].cmd = "upgrade"
    THEN /\ Len(notif) = 1
         /\ notif[1].kind = "aborted"
         /\ notif[1].reason = ReplaceErr(recv[Len(recv)])
         /\ notif[1].id = sent[Len(sent)].id
    ELSE notif = <<>>

\* C5 witness: upgrade was answered "err x" at DISPATCH and has raised with
\* the aborted datagram sent.
C5_Witness ==
  /\ op = "upgrade"
  /\ result.kind = "raise"
  /\ sent # <<>> /\ sent[Len(sent)].cmd = "upgrade"
  /\ recv[Len(recv)] = ErrBusy
  /\ notif # <<>>

\* C6: once "com upgrade" is sent (by upgrade or upgrade_custom) it is the
\* last command, sent once, and the call has ended with exactly one
\* notification: "started" and a returned success when the response starts
\* with ok, otherwise "aborted" with the reason and WazuhError 1716.
C6_DispatchOutcome ==
  (op \in {"upgrade", "upgrade_custom"} /\ Positions("upgrade") # {}) =>
    LET r == recv[Len(recv)] IN
    /\ Positions("upgrade") = {Len(sent)}
    /\ pc = "done"
    /\ Len(notif) = 1
    /\ StartsWith(r, OK) =>
         /\ notif[1].kind = "started"
         /\ result.kind = "return"
    /\ ~StartsWith(r, OK) =>
         /\ notif[1].kind = "aborted"
         /\ notif[1].reason = ReplaceErr(r)
         /\ result.kind = "raise" /\ result.exc = "WazuhError" /\ result.code = 1716

\* C6 witness: upgrade_custom was answered with something that is not ok at
\* DISPATCH.
C6_Witness ==
  /\ op = "upgrade_custom"
  /\ Positions("upgrade") # {}
  /\ recv[Len(recv)] = Garbage
  /\ result.kind = "raise"

\* C7 as claimed: the final response "ok 0" gives success and "succeeded",
\* "ok 2" gives an error and "failed, restored", every other final response
\* an error and "lost"; one notification in each case.
C7_Claimed ==
  (op = "upgrade_result" /\ pc = "done" /\ sent # <<>>) =>
    LET r == recv[Len(recv)] IN
    /\ Len(notif) = 1
    /\ IF r = OK0
       THEN notif[1].kind = "succeeded" /\ result = Returned("Agent upgraded successfully")
       ELSE IF r = OK2
       THEN notif[1].kind = "failed_restored" /\ result.kind = "raise" /\ result.code = 1716
       ELSE notif[1].kind = "lost" /\ result.kind = "raise" /\ result.code = 1716

\* C7 as amended: a final response that starts with "ok 0" gives success and
\* "succeeded", one that starts with "ok 2" an error and "failed, restored",
\* every other final response an error and "lost"; one notification in each
\* case.
C7_ResultByPrefix ==
  (op = "upgrade_result" /\ pc = "done" /\ sent # <<>>) =>
    LET r == recv[Len(recv)] IN
    /\ Len(notif) = 1
    /\ IF StartsWith(r, OK0)
       THEN notif[1].kind = "succeeded" /\ result = Returned("Agent upgraded successfully")
       ELSE IF StartsWith(r, OK2)
       THEN notif[1].kind = "failed_restored" /\ result.kind = "raise" /\ result.code = 1716
       ELSE notif[1].kind = "lost" /\ result.kind = "raise" /\ result.code = 1716

\* C7 witness: the final response is "ok 20" and the call has ended.
C7_Witness ==
  /\ op = "upgrade_result"
  /\ pc = "done"
  /\ sent # <<>>
  /\ recv[Len(recv)] = OK2 \o <<"0">>

\* C8: upgrade_result sends at most timeout + 1 requests, each but the first
\* after an err response; when it has ended, a final response starting with
\* "ok 0" is a success whatever came before, and a final response starting
\* with err means the budget is used up.
C8_ResultRetries ==
  (op = "upgrade_result" /\ sent # <<>>) =>
    /\ Len(sent) <= arg.timeout + 1
    /\ \A i \in 1..(Len(sent) - 1) : StartsWith(recv[i], ERR)
    /\ \A i \in 1..Len(sent) : sent[i].cmd = "upgrade_result"
    /\ pc = "done" =>
         LET r == recv[Len(recv)] IN
         /\ StartsWith(r, OK0) => result.kind = "return"
         /\ StartsWith(r, ERR) => (Len(sent) = arg.timeout + 1 /\ result.kind = "raise")
         /\ result.kind = "raise" => result.msg \in {RestoredMsg, ReplaceErr(r)}

\* C8 witness: an err response was followed by "ok 0" and the call returned.
C8_Witness ==
  /\ op = "upgrade_result"
  /\ Len(sent) >= 2
  /\ StartsWith(recv[1], ERR)
  /\ recv[Len(recv)] = OK0
  /\ result.kind = "return"

\* whether the agent the call names fails a precondition of upgrade
PreconditionFails ==
  LET i == IntOf(id) IN
  \/ i = 0
  \/ i \notin DOMAIN env.db
  \/ calculate_status(env.db[i].lastKeepAlive, env.db[i].version = NoVersion, Now) # "active"
  \/ VerLt(env.db[i].version, V300a4)
  \/ (env.db[i].platform = "windows" /\ IntOf(env.db[i].major) < 6)

\* C9 (upgrade only): an upgrade call on an agent that fails a precondition
\* sends no request-socket command and issues no HTTP request.
C9_UpgradePreconditions ==
  (op = "upgrade" /\ PreconditionFails) => (sent = <<>> /\ http = <<>>)

\* C9 as claimed: no command and no package fetch by upgrade when a
\* precondition fails, and no command by upgrade_custom or upgrade_result
\* when the agent is the manager (id 0, however it is written).
C9_Claimed ==
  /\ C9_UpgradePreconditions
  /\ IntOf(id) = 0 => (sent = <<>> /\ http = <<>>)

\* the version package selection looks for
C10_Wanted == IF arg.version = NoVersion THEN env.db[0].version ELSE arg.version

\* C10: after the manifest was fetched in upgrade: a selected file carries
\* the wanted version (the requested one, else the manager's), which the
\* manifest lists, and the digest of its first entry; when the wanted version
\* is listed, without force a manager below it or an agent at or above it
\* ends the call with error 1717 or 1749, no command sent and no package
\* requested, and otherwise (with force, or neither condition) a file is
\* selected.
C10_Selection ==
  (op = "upgrade" /\ pc \notin {"start", "get_wpk"} /\ http # <<>> /\ env.reach) =>
    LET wanted == C10_Wanted
        entries == {k \in 1..Len(env.manifest) : env.manifest[k][1] = wanted}
        managerOlder == VerLt(env.db[0].version, wanted)
        agentCurrent == ~VerLt(env.db[IntOf(id)].version, wanted)
    IN
    /\ wpk_file # NoName =>
         /\ wpk_file.ver = wanted
         /\ entries # {}
         /\ agent_new_shasum = env.manifest[CHOOSE k \in entries : \A j \in entries : k <= j][2]
    /\ (entries # {} /\ ~arg.force /\ (managerOlder \/ agentCurrent)) =>
         /\ result.kind = "raise"
         /\ result.code = (IF managerOlder THEN 1717 ELSE 1749)
         /\ sent = <<>>
         /\ http = <<"versions">>
    /\ (entries # {} /\ (arg.force \/ ~(managerOlder \/ agentCurrent))) =>
         /\ wpk_file # NoName
         /\ result.code \notin {1717, 1749}
    /\ result.code \in {1717, 1749} => (sent = <<>> /\ http = <<"versions">>)

\* C10 witness: version 3.10.0 was requested from a 3.6.0 manager without
\* force, and the call raised 1717.
C10_Witness ==
  /\ op = "upgrade"
  /\ arg.version = V3100 /\ env.db[0].version = V360 /\ ~arg.force
  /\ result.kind = "raise" /\ result.code = 1717
  /\ sent = <<>>

\* whether the package was requested from the repository
Downloaded == \E i \in 1..Len(http) : http[i] = "wpk"

\* C11, the states: once upgrade is past fetch-or-reuse, either it returned
\* (file_sha1 is set) and then the local package file hashes to the digest the
\* manifest lists, file_sha1 is that digest and every accepted "com sha1"
\* reply carried it; or it raised 1714 after a download, with no request sent
\* to the agent. Without a download the local file has the manifest's digest.
C11_FetchState ==
  (op = "upgrade" /\ wpk_file # NoName /\ pc \notin {"start", "get_wpk", "fetch"}) =>
    /\ file_sha1 # <<>> =>
         /\ Reusable(disk, wpk_file, agent_new_shasum)
         /\ file_sha1 = agent_new_shasum
         /\ \A j \in Positions("sha1") :
              j < Len(sent) => CarriesDigest(recv[j], agent_new_shasum)
    /\ file_sha1 = <<>> =>
         /\ Downloaded
         /\ result = Raised("WazuhInternalError", 1714, <<>>)
         /\ sent = <<>>
         /\ (wpk_file \in DOMAIN disk => Sha1(disk[wpk_file]) # agent_new_shasum)
    /\ ~Downloaded => Reusable(disk, wpk_file, agent_new_shasum)

\* C11, the step: fetch-or-reuse issues the download exactly when the local
\* file is absent or its digest is not the manifest's, and leaves the local
\* files alone when it reuses.
C11_FetchStep ==
  pc = "fetch" =>
    /\ (http' = http) <=> Reusable(disk, wpk_file, agent_new_shasum)
    /\ (http' = http) => disk' = disk
    /\ (http' # http) => http' = Append(http, "wpk")

\* C11: fetch-or-reuse returns only with a local file whose SHA-1 is the
\* manifest's digest, which is the digest VERIFY compares with; it reuses the
\* local file without download exactly when its SHA-1 matches, otherwise it
\* downloads, and a mismatch after the download raises before any command is
\* sent to the agent.
C11_FetchOrReuse == [](C11_FetchState) /\ [][C11_FetchStep]_vars

\* C11 witness: a stale local file was replaced by a good download and the
\* transfer went on to VERIFY with the manifest's digest.
C11_Witness ==
  /\ op = "upgrade"
  /\ Downloaded
  /\ file_sha1 = agent_new_shasum /\ file_sha1 # <<>>
  /\ env.download = "ok"
  /\ Positions("sha1") # {}

\* ------------------------------------------------------ keystore claims
\* caller p is between its read of the keystore and its rename (or its exit)
InRewrite(p) ==
  proc[p].pc \in {"add_scan", "add_copy", "add_write", "add_move",
                  "rm_write", "rm_db", "rm_files", "rm_move"}

\* the ids of the entries of a keystore that are not tombstoned
ActiveIds(lines) ==
  {lines[k][1] : k \in {j \in 1..Len(lines) : Unpackable(lines[j]) /\ ~Tombstoned(lines[j][2])}}

\* C12 as claimed: every caller that has read the keystore and not yet
\* renamed its rewrite holds the exclusive lock, local remove included, so
\* no two callers are between read and rename at once.
C12_Claimed ==
  /\ \A p \in DOMAIN proc : InRewrite(p) => api_lock = p
  /\ \A p, q \in DOMAIN proc : (InRewrite(p) /\ InRewrite(q)) => p = q

\* C12, the lost update: all calls have ended, no remove was asked for agent
\* 2, an enroll returned the id "002" and yet the keystore holds no entry
\* with that id.
C12_LostUpdate ==
  /\ \A p \in DOMAIN proc : proc[p].pc = "idle" /\ todo[p] = <<>>
  /\ \A j \in 1..Len(klog) : klog[j].call.kind = "remove" => klog[j].call.id = <<"1">>
  /\ \E j \in 1..Len(klog) :
       klog[j].result.kind = "return" /\ klog[j].result.value = Id(2)
  /\ \A k \in 1..Len(client_keys) : client_keys[k][1] # Id(2)

\* the run consists of one call, made by caller 1
SingleCall ==
  /\ DOMAIN proc = Procs
  /\ \A p \in Procs \ {1} : todo[p] = <<>> /\ proc[p].pc = "idle"
  /\ Len(klog) + Len(todo[1]) + (IF proc[1].pc = "idle" THEN 0 ELSE 1) = 1

\* lines with the active entries of the ids in S tombstoned
TombAll(lines, S) ==
  [k \in 1..Len(lines) |->
     IF lines[k][1] \in S /\ ~Tombstoned(lines[k][2]) THEN TombstoneLine(lines[k])
     ELSE lines[k]]

\* the ids of the active entries that collide with enroll call c on name or ip
Colliding(lines, c) ==
  {lines[k][1] : k \in {j \in 1..Len(lines) :
                          /\ ~Tombstoned(lines[j][2])
                          /\ \/ lines[j][2] = c.name
                             \/ (c.ip # AnyIp /\ lines[j][3] = c.ip)}}

\* the keystores a single enroll call c may leave before it appends: the
\* first keystore with some of the colliding entries evicted
AfterEvictions(c) ==
  {TombAll(kenv.keys, S) :
     S \in SUBSET (IF c.kind = "enroll" /\ c.force >= 0 THEN Colliding(kenv.keys, c) ELSE {})}

C13_RewriteState ==
  SingleCall =>
    /\ proc[1].pc # "idle" => client_keys \in AfterEvictions(proc[1].call)
    /\ \A j \in 1..Len(klog) :
         LET c == klog[j].call
             r == klog[j].result
         IN
         /\ (r.kind = "raise" \/ kenv.authd_running) => client_keys \in AfterEvictions(c)
         /\ (r.kind = "return" /\ ~kenv.authd_running /\ c.kind = "remove") =>
              client_keys = Rewritten(kenv.keys, StoredId(c.id), c.purge)
         /\ (r.kind = "return" /\ ~kenv.authd_running /\ c.kind = "enroll") =>
              \E old \in AfterEvictions(c) :
                client_keys = old \o <<Entry(r.value, c.name, c.ip,
                                             IF c.key = <<>> THEN GeneratedKey ELSE c.key)>>

\* C13, the steps: the keystore only ever changes by the rename of the
\* complete temp file over it.
C13_RewriteStep ==
  client_keys' # client_keys =>
    /\ client_keys_tmp.exists
    /\ client_keys' = client_keys_tmp.lines
    /\ ~client_keys_tmp'.exists

ActiveLines(lines) == {j \in 1..Len(lines) : Unpackable(lines[j]) /\ ~Tombstoned(lines[j][2])}

\* C14 as claimed: after any interleaving of enroll and remove calls no two
\* active keystore entries have the same id.
C14_Claimed ==
  \A i, j \in ActiveLines(client_keys) : client_keys[i][1] = client_keys[j][1] => i = j

\* C14, the enrolls: two enrolls without a supplied id both returned the
\* same id.
C14_SameIdTwice ==
  \E i, j \in 1..Len(klog) :
    /\ i < j
    /\ klog[i].call.kind = "enroll" /\ klog[i].call.id = <<>>
    /\ klog[j].call.kind = "enroll" /\ klog[j].call.id = <<>>
    /\ klog[i].result.kind = "return" /\ klog[j].result.kind = "return"
    /\ klog[i].result.value = klog[j].result.value

\* only caller 1 makes calls in this run
OneCaller ==
  /\ DOMAIN proc = Procs
  /\ \A p \in Procs \ {1} : todo[p] = <<>> /\ proc[p].pc = "idle"
  /\ \A j \in 1..Len(klog) : klog[j].p = 1

\* C14, one caller: when the calls run one after the other, no two active
\* keystore entries have the same id.
C14_OneCallerUnique == OneCaller => C14_Claimed

\* C15 as claimed: no remove call removes the manager: the database of id
\* "000" is never deleted, and a local remove of id "000" never succeeds in
\* tombstoning or purging a keystore entry.
C15_Claimed ==
  DOMAIN proc = Procs =>
    /\ ManagerId \in agents_db
    /\ \A j \in 1..Len(klog) :
         (klog[j].call.kind = "remove" /\ IntOf(klog[j].call.id) = 0 /\ ~kenv.authd_running)
           => klog[j].result.kind = "raise"

\* C15, the keystore without an entry "000": a local remove of the manager
\* raises before it deletes anything.
C15_NoManagerEntry ==
  (DOMAIN proc = Procs /\ \A j \in 1..Len(klog) : klog[j].call.kind = "remove") =>
    /\ ManagerId \in agents_db
    /\ \A j \in 1..Len(klog) :
         (IntOf(klog[j].call.id) = 0 /\ ~kenv.authd_running) => klog[j].result.kind = "raise"

\* the error codes of a duplicate name, ip or id
ConflictCodes == {1705, 1706, 1708}

\* enroll call c reaches the scan of the local path
ReachesScan(c) ==
  /\ c.kind = "enroll"
  /\ ~kenv.authd_running
  /\ ~c.use_only_authd
  /\ c.ip = AnyIp \/ c.ip \in ValidIps
  /\ ~KeyTooShort(c.key)
  /\ c.name # kenv.db[0].name

\* the active entries of the first keystore named like enroll call c
SameName(c) == {k \in ActiveLines(kenv.keys) : kenv.keys[k][2] = c.name}

\* nothing has been removed: keystore, databases, rows, files and backups are
\* as they were at first
NothingRemoved ==
  /\ client_keys = kenv.keys
  /\ agents_db = {Id(i) : i \in DOMAIN kenv.db}
  /\ belongs = DOMAIN kenv.db \ {0}
  /\ agent_files = {Id(i) : i \in DOMAIN kenv.db \ {0}}
  /\ backup_dirs = <<>>

\* C16: a local enroll with a negative force and the name of an active
\* keystore entry raises a conflict error (duplicate name, or duplicate ip or
\* id met on an earlier line), whatever the last keep-alive of the existing
\* agent, and evicts nobody: at no point of the call has anything been removed.
C16_NegativeForceConflict ==
  SingleCall =>
    /\ (proc[1].pc # "idle" /\ proc[1].call.kind = "enroll" /\ proc[1].call.force < 0)
         => NothingRemoved
    /\ \A j \in 1..Len(klog) :
         LET c == klog[j].call IN
         (ReachesScan(c) /\ c.force < 0 /\ SameName(c) # {}) =>
           /\ klog[j].result.kind = "raise"
           /\ klog[j].result.code \in ConflictCodes
           /\ NothingRemoved

\* C16 witness: enroll with force -1 and the name of agent 1, which was last
\* seen long ago, raised 1705.
C16_Witness ==
  /\ SingleCall
  /\ Len(klog) = 1
  /\ klog[1].call.kind = "enroll" /\ klog[1].call.force = 0 - 1
  /\ klog[1].call.name = NameA
  /\ 1 \in DOMAIN kenv.db /\ kenv.db[1].lastKeepAlive = Now - limit_seconds - 2
  /\ Id(1) \in ActiveIds(kenv.keys)
  /\ klog[1].result.kind = "raise" /\ klog[1].result.code = 1705

\* C17 as claimed: a single local enroll with force >= 0 that collides on
\* name or ip with exactly one active entry, of an agent whose last keep-alive
\* is known, and with no entry on id, evicts that agent and appends the new
\* entry exactly when force is 0 or the time since the last keep-alive
\* exceeds force; otherwise it raises a conflict error and removes nothing.
C17_Claimed ==
  SingleCall =>
    \A j \in 1..Len(klog) :
      LET c == klog[j].call
          r == klog[j].result
          hit == Colliding(kenv.keys, c)
      IN
      (/\ ReachesScan(c)
       /\ c.force >= 0
       /\ Cardinality(hit) = 1
       /\ (c.id = <<>> \/ zfill3(c.id) \notin ActiveIds(kenv.keys))
       /\ \A x \in hit : IntOf(x) \in DOMAIN kenv.db /\ kenv.db[IntOf(x)].lastKeepAlive # 0)
      =>
      \A x \in hit :
        IF c.force = 0 \/ Now - kenv.db[IntOf(x)].lastKeepAlive > c.force
        THEN /\ r.kind = "return"
             /\ x \notin ActiveIds(SubSeq(client_keys, 1, Len(client_keys) - 1))
             /\ client_keys[Len(client_keys)][2] = c.name
        ELSE /\ r.kind = "raise"
             /\ r.code \in {1705, 1706}
             /\ NothingRemoved

\* the largest id among the entries of a keystore, tombstoned ones included;
\* 0 for a keystore without entries
MaxId(lines) ==
  LET ids == {IntOf(lines[k][1]) : k \in {j \in 1..Len(lines) : Unpackable(lines[j])}}
  IN IF ids = {} THEN 0 ELSE CHOOSE m \in ids : \A n \in ids : n <= m

\* C18: a local enroll without a supplied id assigns the zero-padded value of
\* the largest id in the keystore it read, tombstoned entries included, plus
\* one ("001" for an empty keystore); the id is the id of no entry it read,
\* and, when the calls run one after the other, of no entry of the keystore.
C18_NextId ==
  \A p \in DOMAIN proc :
    (proc[p].pc \in {"add_copy", "add_write", "add_move"} /\ proc[p].aid = <<>>) =>
      /\ proc[p].agent_id = zfill3(StrOf(MaxId(proc[p].lines) + 1))
      /\ \A k \in 1..Len(proc[p].lines) : proc[p].lines[k][1] # proc[p].agent_id
      /\ OneCaller =>
           /\ proc[p].agent_id = zfill3(StrOf(MaxId(client_keys) + 1))
           /\ \A k \in 1..Len(client_keys) : client_keys[k][1] # proc[p].agent_id

\* C18 witness: on the keystore whose largest id, 003, is a tombstone, an
\* enroll without id is about to write the id 004.
C18_Witness ==
  /\ SingleCall
  /\ proc[1].pc = "add_move"
  /\ proc[1].aid = <<>>
  /\ \E k \in 1..Len(client_keys) : client_keys[k][1] = Id(3) /\ Tombstoned(client_keys[k][2])
  /\ proc[1].agent_id = Id(4)

\* a key was supplied and has fewer than 64 characters
IsShort(key) == key # <<>> /\ Len(key) < MinKeyLen

\* C19: an enroll with a supplied key shorter than 64 characters is rejected
\* on the local and on the delegated path, whatever its other arguments: the
\* call raises without getting past its validation, so no keystore line and
\* no message to the enrollment daemon ever carries such a key, and in a run
\* of that single call nothing is locked, written or sent at all.
C19_ShortKeyRejected ==
  DOMAIN proc = Procs =>
    /\ \A p \in Procs : ~IsShort(proc[p].call.key)
    /\ \A j \in 1..Len(klog) :
         (klog[j].call.kind = "enroll" /\ IsShort(klog[j].call.key)) =>
           /\ klog[j].result.kind = "raise"
           /\ klog[j].result.code \in {1709, 1706, 1726}
           /\ (klog[j].result.code = 1706 => klog[j].call.ip = BadIp)
           /\ (klog[j].result.code = 1726 =>
                 (klog[j].call.use_only_authd /\ ~kenv.authd_running))
           /\ SingleCall =>
                (NothingRemoved /\ authd = <<>> /\ api_lock = 0 /\ ~client_keys_tmp.exists)
    /\ \A k \in 1..Len(client_keys) : ~IsShort(client_keys[k][4])
    /\ \A k \in 1..Len(client_keys_tmp.lines) : ~IsShort(client_keys_tmp.lines[k][4])
    /\ \A k \in 1..Len(authd) : ~IsShort(authd[k].key)

\* C19 witness: with the daemon running, an enroll with id and a key of 63
\* characters raised 1709 and nothing was sent to the daemon.
C19_Witness ==
  /\ SingleCall
  /\ kenv.authd_running
  /\ Len(klog) = 1
  /\ klog[1].call.kind = "enroll"
  /\ klog[1].call.key = ShortKey
  /\ klog[1].call.id # <<>>
  /\ klog[1].result.kind = "raise" /\ klog[1].result.code = 1709
  /\ authd = <<>>

\* the positions in the first keystore of the active entries with id rid
ActiveAt(rid) == {k \in ActiveLines(kenv.keys) : kenv.keys[k][1] = rid}

\* C20: a single local remove that succeeds found one active entry of its id;
\* without purge the keystore is the first one with that line replaced by
\* the same id, ip and key and the name prefixed with "!", with purge it is
\* the first one without that line; every other line, tombstoned lines of the
\* same id included, keeps its content and its place in the order.
C20_TombstoneOrPurge ==
  SingleCall =>
    \A j \in 1..Len(klog) :
      LET c == klog[j].call
          old == kenv.keys
      IN
      (c.kind = "remove" /\ ~kenv.authd_running /\ klog[j].result.kind = "return") =>
        /\ Cardinality(ActiveAt(StoredId(c.id))) = 1
        /\ \A t \in ActiveAt(StoredId(c.id)) :
             IF c.purge
             THEN client_keys = SubSeq(old, 1, t - 1) \o SubSeq(old, t + 1, Len(old))
             ELSE client_keys =
                    [old EXCEPT ![t] = <<old[t][1], <<"!">> \o old[t][2], old[t][3], old[t][4]>>]

\* C20 witness: agent 2 was removed without purge from the keystore that
\* also holds a tombstoned line of id 002 before it.
C20_Witness ==
  /\ SingleCall
  /\ Len(klog) = 1
  /\ klog[1].call.kind = "remove" /\ ~klog[1].call.purge
  /\ klog[1].result.kind = "return"
  /\ ~kenv.authd_running
  /\ Len(kenv.keys) = 3
  /\ kenv.keys[1][1] = Id(2) /\ Tombstoned(kenv.keys[1][2])
  /\ client_keys[1] = kenv.keys[1]
  /\ client_keys[3][2] = <<"!">> \o NameA

\* the run is one local remove of an id that no active entry of the first
\* keystore carries (absent, or present only as a tombstone)
NotEnrolled(c) ==
  /\ c.kind = "remove"
  /\ ~kenv.authd_running
  /\ ~c.use_only_authd
  /\ \A k \in 1..Len(kenv.keys) : Unpackable(kenv.keys[k])
  /\ StoredId(c.id) \notin ActiveIds(kenv.keys)

\* C21 as claimed: a single local remove of an id that is not among the
\* active keystore entries fails with NotFoundError (WazuhError 1701), also
\* when the agent table still holds the record, and leaves the keystore, the
\* database, the group row and the files untouched.
C21_Claimed ==
  SingleCall =>
    \A j \in 1..Len(klog) :
      NotEnrolled(klog[j].call) =>
        /\ klog[j].result.kind = "raise"
        /\ klog[j].result.exc = "WazuhError"
        /\ klog[j].result.code = 1701
        /\ NothingRemoved

\* C21, what the code does keep: the call raises (1701 when the agent table
\* has no record, 1746 when it has one) and nothing is touched, the temp
\* file being removed again.
C21_RaisesUntouched ==
  SingleCall =>
    \A j \in 1..Len(klog) :
      NotEnrolled(klog[j].call) =>
        /\ klog[j].result.kind = "raise"
        /\ klog[j].result.code = (IF IntOf(klog[j].call.id) \in DOMAIN kenv.db THEN 1746 ELSE 1701)
        /\ NothingRemoved
        /\ ~client_keys_tmp.exists

\* call c passes the checks made before the daemon is asked
AuthdAsked(c) ==
  \/ c.kind = "remove"
  \/ c.kind = "enroll" /\ (c.ip = AnyIp \/ c.ip \in ValidIps) /\ ~KeyTooShort(c.key)

\* C22, the states: a caller is on the local path only when the daemon is not
\* running and the call does not set use_only_authd; with the daemon running
\* every call that passed validation sent exactly one message to it and the
\* keystore, the temp file and the lock were never touched; with the daemon
\* not running no message was sent, and a call with use_only_authd raised
\* 1726 (an enroll with an invalid ip raised 1706 before the probe).
C22_PathState ==
  /\ \A p \in DOMAIN proc :
       proc[p].pc # "idle" => (~kenv.authd_running /\ ~proc[p].call.use_only_authd)
  /\ Len(authd) = Cardinality({j \in 1..Len(klog) : kenv.authd_running /\ AuthdAsked(klog[j].call)})
  /\ kenv.authd_running =>
       (client_keys = kenv.keys /\ client_keys_tmp = NoFile /\ api_lock = 0 /\ NothingRemoved)
  /\ \A j \in 1..Len(klog) :
       LET c == klog[j].call IN
       (c.use_only_authd /\ ~kenv.authd_running) =>
         /\ klog[j].result.kind = "raise"
         /\ IF c.kind = "enroll" /\ c.ip # AnyIp /\ c.ip \notin ValidIps
            THEN klog[j].result.code = 1706
            ELSE klog[j].result.code = 1726 /\ klog[j].result.exc = "WazuhInternalError"

\* C22, the steps: the step that takes up a call with use_only_authd ends the
\* call and leaves the keystore, the temp file and the lock alone.
C22_PathStep ==
  \A p \in DOMAIN proc :
    (proc[p].pc = "idle" /\ todo[p] # <<>> /\ todo'[p] # todo[p] /\ Head(todo[p]).use_only_authd)
      => /\ proc'[p].pc = "idle"
         /\ Len(klog') = Len(klog) + 1
         /\ UNCHANGED <<client_keys, client_keys_tmp, api_lock>>

\* C22: enroll and remove take the delegated path exactly when the daemon is
\* running and the local path otherwise; with use_only_authd set and the
\* daemon not running they raise 1726, so such a call never reads, locks or
\* rewrites the local keystore.
C22_DelegateOrLocal == [](C22_PathState) /\ [][C22_PathStep]_vars

\* C22 witness: with the daemon not running, a remove with use_only_authd
\* of an agent that has an active keystore entry raised 1726 and the
\* keystore was not rewritten.
C22_Witness ==
  /\ ~kenv.authd_running
  /\ Len(klog) = 1
  /\ klog[1].call.kind = "remove" /\ klog[1].call.use_only_authd
  /\ StoredId(klog[1].call.id) \in ActiveIds(kenv.keys)
  /\ klog[1].result.kind = "raise" /\ klog[1].result.code = 1726
  /\ client_keys = kenv.keys

\* the errors a local enroll or a local remove raises once the temp file
\* has been created
AfterTempCodes == {1725, 1746, 1747, 1748}

\* C29 as claimed: when a single local enroll or remove has failed after the
\* temp file was created, the temp file is gone, and the error is an
\* InternalError (WazuhInternalError) carrying the message of the failure.
C29_Claimed ==
  SingleCall =>
    \A j \in 1..Len(klog) :
      (klog[j].result.kind = "raise" /\ klog[j].result.code \in AfterTempCodes) =>
        /\ ~client_keys_tmp.exists
        /\ klog[j].result.exc = "WazuhInternalError"
        /\ klog[j].result.code # 1746 => klog[j].result.msg = FaultMsg

\* C29, the part the code keeps: a failure inside the loop of _remove_manual,
\* or an id without active entry, removes the temp file and raises
\* WazuhInternalError 1746.
C29_LoopFailureCleans ==
  SingleCall =>
    \A j \in 1..Len(klog) :
      (klog[j].result.kind = "raise" /\ klog[j].result.code = 1746) =>
        /\ ~client_keys_tmp.exists
        /\ klog[j].result.exc = "WazuhInternalError"

\* C29, the temp file left behind: the DELETE FROM belongs failed in a single
\* remove, the caller got 1747 and client.keys.tmp still exists.
C29_TempLeft ==
  /\ SingleCall
  /\ Len(klog) = 1
  /\ klog[1].call.kind = "remove"
  /\ klog[1].result.kind = "raise" /\ klog[1].result.code = 1747
  /\ client_keys_tmp.exists

\* ------------------------------------------------------ group claims
\* the group calls are made one after the other, by caller 1
GOneCaller ==
  /\ DOMAIN gproc = Procs
  /\ \A p \in Procs \ {1} : gtodo[p] = <<>> /\ gproc[p].pc = "idle"
  /\ \A j \in 1..Len(glog) : glog[j].p = 1

\* g is the name of a group: one symbol that is no separator
IsName(g) == Len(g) = 1 /\ g[1] # "," /\ g[1] # "\n"

\* every group call of the run names a group
NamesOnly ==
  /\ \A j \in 1..Len(glog) : IsName(glog[j].call.group_id)
  /\ \A p \in DOMAIN gtodo : \A j \in 1..Len(gtodo[p]) : IsName(gtodo[p][j].group_id)
  /\ \A p \in DOMAIN gproc : gproc[p].pc # "idle" => IsName(gproc[p].call.group_id)

\* the groups a group file stores
Stored(f) == split(strip(f.text))

\* no element of the list occurs twice
NoDuplicate(l) == \A i, j \in 1..Len(l) : l[i] = l[j] => i = j

\* C23: after any sequence of sequential add (append or replace) and remove
\* calls with well-formed group names on agent 1, whose group file was
\* non-empty, duplicate-free and within the limit at first, the stored group
\* set is non-empty, holds no group twice and holds at most
\* max_groups_per_multigroup groups.
C23_GroupSetInvariants ==
  (GOneCaller /\ NamesOnly /\ gproc[1].pc = "idle") =>
    LET l == Stored(group_files[Id(1)]) IN
    /\ group_files[Id(1)].exists
    /\ Len(l) >= 1
    /\ \A i \in 1..Len(l) : l[i] # <<>>
    /\ NoDuplicate(l)
    /\ Len(l) <= max_groups_per_multigroup

\* C23 witness: one caller added a group, which filled the file up to the
\* limit, and its next add of another group was refused with 1737.
C23_Witness ==
  /\ GOneCaller /\ NamesOnly
  /\ Len(glog) = 2
  /\ glog[1].call.kind = "add" /\ glog[1].result.kind = "return"
  /\ Len(Stored(glog[1].after)) = max_groups_per_multigroup
  /\ glog[2].call.kind = "add" /\ glog[2].result.kind = "raise" /\ glog[2].result.code = 1737
  /\ group_files[Id(1)] = glog[1].after

\* the error codes of the checks of agent and group made when force is not set
CheckCodes == {1701, 1703, 1722, 1710}

\* the groups the call of log entry e found in the file
FoundGroups(e) == IF e.before.exists THEN Stored(e.before) ELSE split(<<>>)

\* list l without the group g
Without(l, g) == SelectSeq(l, LAMBDA x : x # g)

C24_OrderKept ==
  /\ GOneCaller
  /\ Len(glog) >= 1
  /\ glog[1].call.kind = "unset" /\ glog[1].result.kind = "return"
  /\ Len(FoundGroups(glog[1])) = max_groups_per_multigroup
  /\ glog[1].call.group_id = default
  /\ split(glog[1].after.text) = Tail(FoundGroups(glog[1]))

\* the error codes the spec calls ConflictError on a group add
AddConflictCodes == {1751, 1752, 1737}

\* C25, the log: a sequential add on a file that already holds
\* max_groups_per_multigroup groups, past the checks of agent and group,
\* raises a conflict error (limit reached, or duplicate or replace refused
\* before the limit is looked at), and every add that raised left the group
\* file exactly as it found it.
C25_RejectedState ==
  GOneCaller =>
    \A j \in 1..Len(glog) :
      LET e == glog[j] IN
      e.call.kind = "add" =>
        /\ (/\ e.before.exists
            /\ Len(Stored(e.before)) >= max_groups_per_multigroup
            /\ ~(e.result.kind = "raise" /\ e.result.code \in CheckCodes))
             => (e.result.kind = "raise" /\ e.result.code \in AddConflictCodes)
        /\ e.result.kind = "raise" => e.after = e.before

\* C25, the steps: whoever else is running, the step in which an add raises
\* changes no group file.
C25_RejectedStep ==
  (/\ Len(glog') = Len(glog) + 1
   /\ glog'[Len(glog')].call.kind = "add"
   /\ glog'[Len(glog')].result.kind = "raise")
    => group_files' = group_files

\* C25: adding a group to an agent that already holds the maximum number of
\* groups always raises ConflictError, and every rejected add (duplicate,
\* replace refused, limit reached) leaves the membership file unchanged.
C25_RejectedAddUnchanged == [](C25_RejectedState) /\ [][C25_RejectedStep]_vars

\* C25 witness: the only call, an add of a new group to a full file, raised
\* 1737 and the file is the full file it found.
C25_Witness ==
  /\ GOneCaller
  /\ Len(glog) = 1
  /\ glog[1].call.kind = "add" /\ ~glog[1].call.replace
  /\ Stored(glog[1].before) = SubSeq(GroupNames, 1, max_groups_per_multigroup)
  /\ glog[1].result.kind = "raise" /\ glog[1].result.code = 1737
  /\ group_files[Id(1)] = glog[1].before

\* the groups an add found: the text with the newlines taken out, split
FoundByAdd(e) == split(RemoveNewlines(e.before.text))

\* C26 as claimed: a sequential add on an existing group file, past the
\* checks of agent and group: with replace and the current groups a subset
\* of replace_list the file becomes exactly the group, whatever the number
\* of groups held before; with replace and no subset the call raises 1752;
\* without replace a member raises 1751 and an absent group is appended at
\* the end (while the file is below the limit).
C26_Claimed ==
  GOneCaller =>
    \A j \in 1..Len(glog) :
      LET e == glog[j]
          c == e.call
          l == FoundByAdd(e)
          current == {l[i] : i \in 1..Len(l)}
      IN
      (/\ c.kind = "add"
       /\ e.before.exists
       /\ ~(e.result.kind = "raise" /\ e.result.code \in CheckCodes)) =>
        IF c.replace
        THEN IF current \subseteq c.replace_list
             THEN e.result.kind = "return" /\ e.after = GroupFile(c.group_id)
             ELSE e.result.kind = "raise" /\ e.result.code = 1752
        ELSE IF InList(c.group_id, l)
        THEN e.result.kind = "raise" /\ e.result.code = 1751
        ELSE Len(l) < max_groups_per_multigroup =>
               /\ e.result.kind = "return"
               /\ e.after.exists /\ split(e.after.text) = Append(l, c.group_id)

\* C26, what the code does: the same, except that a replace allowed by
\* replace_list is carried out only while the file holds fewer than the
\* maximum number of groups and is refused with 1737 on a full file.
C26_ReplaceBelowLimit ==
  GOneCaller =>
    \A j \in 1..Len(glog) :
      LET e == glog[j]
          c == e.call
          l == FoundByAdd(e)
          current == {l[i] : i \in 1..Len(l)}
      IN
      (/\ c.kind = "add"
       /\ e.before.exists
       /\ ~(e.result.kind = "raise" /\ e.result.code \in CheckCodes)) =>
        IF c.replace
        THEN IF ~(current \subseteq c.replace_list)
             THEN e.result.kind = "raise" /\ e.result.code = 1752
             ELSE IF Len(Stored(e.before)) < max_groups_per_multigroup
             THEN e.result.kind = "return" /\ e.after = GroupFile(c.group_id)
             ELSE e.result.kind = "raise" /\ e.result.code = 1737 /\ e.after = e.before
        ELSE IF InList(c.group_id, l)
        THEN e.result.kind = "raise" /\ e.result.code = 1751
        ELSE Len(l) < max_groups_per_multigroup =>
               /\ e.result.kind = "return"
               /\ e.after.exists /\ split(e.after.text) = Append(l, c.group_id)

\* C27 as claimed: no add on the agent id "000" returns or changes a group
\* file, with force or without.
C27_Claimed ==
  \A j \in 1..Len(glog) :
    (glog[j].call.kind = "add" /\ glog[j].call.agent_id = Id(0)) =>
      /\ glog[j].result.kind = "raise"
      /\ glog[j].after = glog[j].before

\* C27, without force: an add or a remove on "000" raises 1703 and writes
\* nothing.
C27_RejectedUnlessForced ==
  \A j \in 1..Len(glog) :
    (/\ glog[j].call.kind \in {"add", "unset"}
     /\ glog[j].call.agent_id = Id(0)
     /\ ~glog[j].call.force) =>
      /\ glog[j].result.kind = "raise" /\ glog[j].result.code = 1703
      /\ glog[j].after = glog[j].before

\* C27, with force: an add on "000" returned and the group file of "000"
\* holds the group.
C27_ForcedAddWrites ==
  \E j \in 1..Len(glog) :
    /\ glog[j].call.kind = "add" /\ glog[j].call.agent_id = Id(0) /\ glog[j].call.force
    /\ IsName(glog[j].call.group_id)
    /\ glog[j].result.kind = "return"
    /\ InList(glog[j].call.group_id, Stored(group_files[Id(0)]))

\* C28: the status get_basic_information reports for an agent is a function
\* of its last keep-alive, of whether it has a version, and of today: no
\* keep-alive (0) gives never_connected; otherwise, with elapsed = today -
\* keep-alive, elapsed greater than limit_seconds gives disconnected, else no
\* version gives pending, else active. With a version, elapsed equal to
\* limit_seconds is active and one second more is disconnected.
C28_StatusDerivation ==
  \A j \in 1..Len(glog) :
    LET e == glog[j] IN
    (e.call.kind = "info" /\ e.result.kind = "return") =>
      LET rec == genv.db[IntOf(e.call.agent_id)]
          elapsed == genv.today - rec.lastKeepAlive
          hasVersion == rec.version # NoVersion
          status == e.result.value[1]
      IN
      /\ Len(e.result.value) = 1
      /\ status \in {"never_connected", "disconnected", "pending", "active"}
      /\ status = "never_connected" <=> rec.lastKeepAlive = 0
      /\ rec.lastKeepAlive # 0 =>
           /\ status = "disconnected" <=> elapsed > limit_seconds
           /\ status = "pending" <=> (elapsed <= limit_seconds /\ ~hasVersion)
           /\ status = "active" <=> (elapsed <= limit_seconds /\ hasVersion)
           /\ (hasVersion /\ elapsed = limit_seconds) => status = "active"
           /\ (hasVersion /\ elapsed = limit_seconds + 1) => status = "disconnected"

\* C28 witness: an agent with a version whose last keep-alive is exactly
\* limit_seconds old was reported active.
C28_Witness ==
  /\ Len(glog) = 1
  /\ glog[1].call.kind = "info"
  /\ genv.db[1].version # NoVersion
  /\ genv.db[1].lastKeepAlive # 0
  /\ genv.today - genv.db[1].lastKeepAlive = limit_seconds
  /\ glog[1].result.kind = "return" /\ glog[1].result.value = <<"active">>

\* C28, one second later: the same agent one second past the threshold was
\* reported disconnected.
C28_PastThreshold ==
  /\ Len(glog) = 1
  /\ glog[1].call.kind = "info"
  /\ genv.db[1].version # NoVersion
  /\ genv.today - genv.db[1].lastKeepAlive = limit_seconds + 1
  /\ glog[1].result.kind = "return" /\ glog[1].result.value = <<"disconnected">>

\* the group calls have all ended
GroupsDone ==
  /\ \A p \in DOMAIN gproc : gproc[p].pc = "idle"
  /\ \A p \in DOMAIN gtodo : gtodo[p] = <<>>

\* the log entries of the calls that wrote the group file of agent 1
Writers == {j \in 1..Len(glog) : glog[j].result.kind = "return" /\ glog[j].call.kind # "info"
                                   /\ glog[j].call.agent_id = Id(1)}

\* C30 as claimed: however add and remove calls with well-formed group names
\* interleave on the group file of agent 1, the file holds no more than
\* max_groups_per_multigroup groups and no group twice in every reachable
\* state, and when all calls have ended it holds the text computed by the
\* call that wrote last.
C30_Claimed ==
  NamesOnly =>
    /\ group_files[Id(1)].exists =>
         /\ Len(Stored(group_files[Id(1)])) <= max_groups_per_multigroup
         /\ NoDuplicate(Stored(group_files[Id(1)]))
    /\ (GroupsDone /\ Writers # {}) =>
         group_files[Id(1)].text =
           glog[CHOOSE j \in Writers : \A i \in Writers : i <= j].written

\* C30, the limit passed: all calls have ended, each wrote the whole of its
\* text while nobody else was writing, and the file of agent 1 holds one
\* group more than max_groups_per_multigroup, all different.
C30_OverLimit ==
  /\ NamesOnly
  /\ GroupsDone
  /\ Writers # {}
  /\ \A j \in Writers : glog[j].after.text = glog[j].written
  /\ Len(Stored(group_files[Id(1)])) = max_groups_per_multigroup + 1
  /\ NoDuplicate(Stored(group_files[Id(1)]))

\* C30, the writes mixed: all calls have ended and the file of agent 1 is the
\* text of no call at all.
C30_MixedText ==
  /\ NamesOnly
  /\ GroupsDone
  /\ Writers # {}
  /\ \A j \in Writers : group_files[Id(1)].text # glog[j].written

\* ------------------------------------------------ custom-package claims
\* the order of commands in a call: with relock the second lock_restart
\* stands between the successful open and the transfer, without it the
\* transfer follows the successful open directly
CommandsInOrder(relock) ==
  /\ (sent # <<>> => sent[1].cmd = "lock_restart")
  /\ \A i \in 1..(Len(sent) - 1) :
       LET c == sent[i].cmd
           n == sent[i + 1].cmd
           ok == StartsWith(recv[i], OK)
       IN
       \/ c = "lock_restart" /\ i = 1 /\ n = "open" /\ ok
       \/ c = "open" /\ n = "open" /\ StartsWith(recv[i], ERR)
       \/ relock /\ c = "open" /\ n = "lock_restart" /\ ok
       \/ relock /\ c = "lock_restart" /\ i > 1 /\ n \in {"write", "close"} /\ ok
       \/ ~relock /\ c = "open" /\ n \in {"write", "close"} /\ ok
       \/ c = "write" /\ n \in {"write", "close"} /\ ok
       \/ c = "close" /\ n = "sha1" /\ ok
       \/ c = "sha1" /\ n = "upgrade" /\ ok

\* C31 as claimed: upgrade_custom sends its commands in the order of the
\* standard upgrade: lock_restart, open (one or more), lock_restart once more
\* after the successful open, write (zero or more), close, sha1, upgrade.
C31_Claimed == op = "upgrade_custom" => CommandsInOrder(TRUE)

\* C31, what the code does: upgrade_custom sends lock_restart once, as its
\* first command, and starts the transfer right after the successful open;
\* the rest of the order is that of the standard upgrade.
C31_CustomOrder ==
  op = "upgrade_custom" =>
    /\ CommandsInOrder(FALSE)
    /\ Cardinality(Positions("lock_restart")) <= 1

\* C31, the missing command: upgrade_custom has returned "Installation
\* started" after a transfer of two chunks with a single lock_restart sent.
C31_OneLock ==
  /\ op = "upgrade_custom"
  /\ result.kind = "return"
  /\ Len(Requests("write")) >= 2
  /\ Cardinality(Positions("lock_restart")) = 1

\* C32, the states: in upgrade_custom, while the transfer runs the digest has
\* been fed exactly the chunks sent so far followed by the chunk read last,
\* each once and in order; once "close" is sent the digest compared at VERIFY
\* is that of the concatenation of all chunks sent, which is the digest of
\* the whole file; "com upgrade" is sent only after a "com sha1" whose reply
\* carried that digest.
C32_IncrementalDigest ==
  op = "upgrade_custom" =>
    LET all == Payloads(Requests("write")) IN
    /\ (pc = "c_write" => hsh = all \o bytes_read)
    /\ (Positions("close") # {} =>
          /\ hsh = all
          /\ file_sha1 = Sha1(all)
          /\ file_sha1 = Sha1(disk[wpk_file]))
    /\ \A i \in Positions("upgrade") :
         /\ i > 1
         /\ sent[i - 1].cmd = "sha1"
         /\ CarriesDigest(recv[i - 1], Sha1(disk[wpk_file]))

\* C32 witness: a file of three bytes was sent in chunks of two (a final
\* short chunk), the reply to "com sha1" was accepted and "com upgrade" sent.
C32_Witness ==
  /\ op = "upgrade_custom"
  /\ wpk_file = CustomName
  /\ Len(disk[wpk_file]) = 3
  /\ ChunkSize = 2
  /\ Len(Requests("write")) = 2
  /\ Positions("upgrade") # {}

\* C32, the empty file: nothing was written, the digest compared is that of
\* the empty string and the call has returned.
C32_EmptyFile ==
  /\ op = "upgrade_custom"
  /\ wpk_file = CustomName
  /\ disk[wpk_file] = <<>>
  /\ Requests("write") = <<>>
  /\ file_sha1 = Sha1(<<>>)
  /\ result.kind = "return"

\* C32, the exact multiple: a file of two bytes was sent in two chunks of one
\* and the call has returned.
C32_ExactMultiple ==
  /\ op = "upgrade_custom"
  /\ wpk_file = CustomName
  /\ Len(disk[wpk_file]) = 2
  /\ ChunkSize = 1
  /\ Len(Requests("write")) = 2
  /\ result.kind = "return"

\* the number of bytes in the first k chunks of the file being sent
BytesUpTo(k) == IF k * ChunkSize <= wpk_file_size THEN k * ChunkSize ELSE wpk_file_size

\* C33 as claimed: the k-th value handed to show_progress is
\* ceil(100 * bytes of chunks 1..k / total size); the values are
\* non-decreasing and at most 100, and once the transfer loop has ended the
\* last value is 100.
C33_Claimed ==
  (op \in {"upgrade", "upgrade_custom"} /\ arg.show_progress) =>
    LET w == Requests("write") IN
    /\ Len(progress) <= Len(w)
    /\ \A k \in 1..Len(progress) :
         /\ progress[k] = ProgressValue(Len(Payloads(SubSeq(w, 1, k))), wpk_file_size)
         /\ progress[k] <= 100
         /\ (k > 1 => progress[k - 1] <= progress[k])
    /\ (Positions("close") # {} /\ progress # <<>>) => progress[Len(progress)] = 100

\* C33, what the code reports: the k-th value counts the chunk read after the
\* k-th write, not the chunk written: it is ceil(100 * bytes of chunks
\* 2..k+1 / total size). The values are non-decreasing and at most 100, and
\* after a complete transfer the last value stands for the file without its
\* first chunk.
C33_ReportsNextChunk ==
  (op \in {"upgrade", "upgrade_custom"} /\ arg.show_progress) =>
    LET w == Requests("write") IN
    /\ Len(progress) <= Len(w)
    /\ \A k \in 1..Len(progress) :
         /\ progress[k] = ProgressValue(BytesUpTo(k + 1) - BytesUpTo(1), wpk_file_size)
         /\ progress[k] <= 100
         /\ (k > 1 => progress[k - 1] <= progress[k])
    /\ (Positions("close") # {} /\ progress # <<>>) =>
         /\ Len(progress) = Len(w)
         /\ progress[Len(progress)] = ProgressValue(wpk_file_size - BytesUpTo(1), wpk_file_size)
         /\ progress[Len(progress)] < 100

\* C33, a one-chunk file: the whole file was sent and acknowledged in one
\* write, the call has returned, and the only value reported is 0.
C33_OneChunkZero ==
  /\ op \in {"upgrade", "upgrade_custom"}
  /\ result.kind = "return"
  /\ Len(Requests("write")) = 1
  /\ progress = <<0>>

\* ------------------------------------------- concurrent upgrade claims
\* how the call c ends when it runs alone: the repository serves the package
\* and the agent stores what it is sent, so the call returns unless the
\* agent refuses one of its commands
AloneResult(c) ==
  IF c.fail_at = "none" THEN Returned("Upgrade procedure started")
  ELSE IF c.fail_at = "lock_restart" THEN Raised("WazuhException", 1715, ReplaceErr(ErrBusy))
  ELSE IF c.fail_at = "upgrade" THEN Raised("WazuhError", 1716, ReplaceErr(ErrBusy))
  ELSE Raised("WazuhInternalError", 1715, ReplaceErr(ErrBusy))

\* every command on a caller's socket carries the id of the caller's agent
\* and the file name its call selected
OwnCommands ==
  \A p \in Callers : \A i \in 1..Len(usock[p]) :
    /\ usock[p][i].id = zfill3(ucall[p].agent_id)
    /\ usock[p][i].file = ucall[p].wpk_file

\* C34 as claimed: of two upgrade calls for different agents running at the
\* same time, every command carries its call's own agent id and each call
\* ends as it would alone with the same agent responses, also when both
\* selected the same package file name.
C34_Claimed ==
  /\ OwnCommands
  /\ \A p \in Callers : ucall[p].pc = "done" => ucall[p].result = AloneResult(ucall[p])

\* C34, what the code keeps: the commands carry their call's own id; a call
\* that runs alone, two calls that selected different package files, and two
\* calls that both reused the local file end as AloneResult says.
C34_UnsharedAsAlone ==
  /\ OwnCommands
  /\ \A p \in Callers :
       ( /\ ucall[p].pc = "done"
         /\ \/ \E o \in Callers : ucall[o].pc = "idle"
            \/ \A o \in Callers \ {p} : ucall[o].wpk_file # ucall[p].wpk_file
            \/ \A o \in Callers : ~ucall[o].got /\ ucall[o].pc \notin {"fetch"} )
       => ucall[p].result = AloneResult(ucall[p])

\* C34, a transfer cut short: both calls have ended; the agent of call 1
\* refused nothing, yet call 1 raised 1715 at the digest comparison after
\* sending less than the package, because call 2 truncated the package file
\* for its own download.
C34_CutShort ==
  /\ \A p \in Callers : ucall[p].pc = "done"
  /\ ucall[1].fail_at = "none"
  /\ ucall[1].result.kind = "raise" /\ ucall[1].result.code = 1715
  /\ Stored_by_agent(usock[1]) # RepoPkg
  /\ ucall[2].got

\* C34, a download spoilt: the agent of call 1 refused nothing, yet call 1
\* raised 1714 on the digest of the file it had just downloaded.
C34_DownloadSpoilt ==
  /\ ucall[1].fail_at = "none"
  /\ ucall[1].pc = "done"
  /\ ucall[1].result.kind = "raise" /\ ucall[1].result.code = 1714

\* ------------------------------------------------- status filter claims
\* the ids of the rows a query returned
Selected(e) == {r.id : r \in e.result.value}

\* C35 as claimed: a query status=v returns an agent other than the manager
\* exactly when calculate_status gives v for it (so exactly one of the four
\* filters selects each record); the manager's record is returned by
\* status=active whatever its heartbeat and is not returned by
\* status!=active.
C35_Claimed ==
  \A j \in 1..Len(glog) :
    LET e == glog[j] IN
    (e.call.kind = "query" /\ e.result.kind = "return") =>
      /\ e.call.operator = "=" =>
           \A i \in DOMAIN genv.db \ {0} : i \in Selected(e) <=> StatusOf(i) = e.call.value
      /\ (e.call.operator = "=" /\ e.call.value = "active") => 0 \in Selected(e)
      /\ (e.call.operator = "!=" /\ e.call.value = "active") => 0 \notin Selected(e)

\* C35, what the code does: status=active, =disconnected and
\* =never_connected return an agent other than the manager exactly when
\* calculate_status gives that value; status=pending returns every agent
\* that has a heartbeat and no version, however old the heartbeat; the
\* manager's record is returned by status=active and by status!=active alike.
C35_FilterAgreement ==
  \A j \in 1..Len(glog) :
    LET e == glog[j] IN
    (e.call.kind = "query" /\ e.result.kind = "return") =>
      /\ (e.call.operator = "=" /\ e.call.value # "pending") =>
           \A i \in DOMAIN genv.db \ {0} : i \in Selected(e) <=> StatusOf(i) = e.call.value
      /\ (e.call.operator = "=" /\ e.call.value = "pending") =>
           \A i \in DOMAIN genv.db \ {0} :
             i \in Selected(e) <=>
               (genv.db[i].lastKeepAlive # 0 /\ genv.db[i].version = NoVersion)
      /\ e.call.value = "active" => 0 \in Selected(e)
      /\ \A r \in e.result.value : r.status = StatusOf(r.id)

\* C35, pending and disconnected at once: status=pending returned agent 1,
\* which has no version and a heartbeat older than the threshold, with the
\* status disconnected.
C35_PendingDisconnected ==
  /\ Len(glog) = 1
  /\ glog[1].call.kind = "query"
  /\ glog[1].call.operator = "=" /\ glog[1].call.value = "pending"
  /\ glog[1].result.kind = "return"
  /\ [id |-> 1, status |-> "disconnected"] \in glog[1].result.value

\* C35, the manager among the not active: status!=active returned the
\* manager's record.
C35_ManagerNotActive ==
  /\ Len(glog) = 1
  /\ glog[1].call.kind = "query"
  /\ glog[1].call.operator = "!=" /\ glog[1].call.value = "active"
  /\ glog[1].result.kind = "return"
  /\ 0 \in Selected(glog[1])

\* ------------------------------------------- hand-edited keystore claims
\* a line the readers are to ignore: blank, or starting with '#' or a space
Ignorable(line) == line = << <<>> >> \/ line[1][1] \in {"#", " "}

\* the lines of a keystore that are to be ignored, and the others
Ignored(lines) == SelectSeq(lines, Ignorable)
Entries(lines) == SelectSeq(lines, LAMBDA l : ~Ignorable(l))

\* C36 as claimed: a single local enroll or remove on a keystore with lines
\* that are blank or start with '#' or a space goes as on the keystore
\* without them: an enroll that collides with no agent entry returns, a
\* remove returns exactly when its id is that of an active agent entry, and
\* the rewritten keystore carries all those lines over unchanged.
C36_Claimed ==
  (SingleCall /\ Ignored(kenv.keys) # <<>>) =>
    \A j \in 1..Len(klog) :
      LET c == klog[j].call
          entries == Entries(kenv.keys)
      IN
      /\ Ignored(client_keys) = Ignored(kenv.keys)
      /\ (ReachesScan(c) /\ \A k \in 1..Len(entries) :
                              /\ entries[k][2] # c.name
                              /\ c.id = <<>> \/ entries[k][1] # StoredId(c.id))
           => klog[j].result.kind = "return"
      /\ (c.kind = "remove" /\ ~kenv.authd_running /\ ~c.use_only_authd) =>
           (klog[j].result.kind = "return" <=> StoredId(c.id) \in ActiveIds(entries))

\* C36, the enroll: a single local enroll on such a keystore that collides
\* with no agent entry returns, and the keystore is the one it found
\* followed by the new entry, the lines to be ignored in their places.
C36_EnrollIgnores ==
  (SingleCall /\ Ignored(kenv.keys) # <<>>) =>
    \A j \in 1..Len(klog) :
      LET c == klog[j].call
          entries == Entries(kenv.keys)
      IN
      (ReachesScan(c) /\ \A k \in 1..Len(entries) :
                           /\ entries[k][2] # c.name
                           /\ c.id = <<>> \/ entries[k][1] # StoredId(c.id))
        => /\ klog[j].result.kind = "return"
           /\ Len(client_keys) = Len(kenv.keys) + 1
           /\ SubSeq(client_keys, 1, Len(kenv.keys)) = kenv.keys
           /\ client_keys[Len(client_keys)][2] = c.name

\* C36, the remove that fails: a single local remove of the active agent 001
\* on a keystore whose first line is blank raised 1746.
C36_RemoveFails ==
  /\ SingleCall
  /\ Len(klog) = 1
  /\ kenv.keys # <<>> /\ kenv.keys[1] = << <<>> >>
  /\ klog[1].call.kind = "remove" /\ StoredId(klog[1].call.id) = Id(1)
  /\ Id(1) \in ActiveIds(Entries(kenv.keys))
  /\ klog[1].result.kind = "raise" /\ klog[1].result.code = 1746
  /\ client_keys = kenv.keys

\* C36, the remove that succeeds: a single local remove of 003, the id on a
\* line put aside by a leading space, returned and rewrote that line as a
\* tombstone.
C36_RemoveRewrites ==
  /\ SingleCall
  /\ Len(klog) = 1
  /\ klog[1].call.kind = "remove" /\ ~klog[1].call.purge
  /\ StoredId(klog[1].call.id) = Id(3)
  /\ Id(3) \notin ActiveIds(Entries(kenv.keys))
  /\ klog[1].result.kind = "return"
  /\ Ignored(client_keys) # Ignored(kenv.keys)

\* ---- C37 ----

\* the upgrade operations under the scheduling of a running call: a step that
\* can be taken is taken, every request having received its response
SpecLive == Spec /\ WF_vars(Next)

\* how many requests of one command the call has sent
Count(cmd) == Cardinality(Positions(cmd))

\* the retry bound of each loop and the size of the file bound what is sent
BoundedRequests ==
  /\ Count("open") <= arg.timeout + 1
  /\ Count("upgrade_result") <= arg.timeout + 1
  /\ Count("write") <= wpk_file_size
  /\ Count("lock_restart") <= 2
  /\ Count("close") <= 1 /\ Count("sha1") <= 1 /\ Count("upgrade") <= 1

\* C37: whatever the agent answers, the open loop and the result-poll loop stop
\* after their retry bound, the transfer loop stops after the last chunk of
\* the file, and every upgrade, custom upgrade and upgrade-result call ends.
C37_Terminates == [](BoundedRequests) /\ <>(pc = "done")

\* a custom upgrade that used up every retry of its open loop and ended
C37_RetriesExhausted ==
  /\ pc = "done" /\ op = "upgrade_custom"
  /\ Count("open") = arg.timeout + 1
  /\ arg.timeout > 0
  /\ result.kind = "raise"

\* an upgrade whose transfer sent the whole file and ended
C37_TransferEnded ==
  /\ pc = "done" /\ op = "upgrade"
  /\ wpk_file_size > 1
  /\ Count("write") = wpk_file_size
  /\ Count("close") = 1
  /\ result.kind = "return"

\* ---- C38 ----

\* the enroll calls that ended in one of the conflict errors
ConflictEnds ==
  {j \in 1..Len(klog) : /\ klog[j].call.kind = "enroll"
                        /\ klog[j].result.kind = "raise"
                        /\ klog[j].result.code \in ConflictCodes}

\* C38: a local enroll that fails with a conflict error leaves the keystore
\* and every existing agent unchanged, even when the scan met an evictable
\* collision on an earlier line and a collision it refuses on a later line.
C38_Claimed == (SingleCall /\ ConflictEnds # {}) => NothingRemoved

\* a conflict error raised by a scan that evicted nobody leaves the keystore
\* and every agent unchanged
C38_NoEvictionNoChange ==
  (SingleCall /\ ConflictEnds # {} /\ backup_dirs = <<>>) => NothingRemoved

\* the enroll evicted the agent of an earlier line and then raised the
\* conflict error for a later line
C38_EvictedThenConflict ==
  /\ SingleCall /\ ConflictEnds # {}
  /\ klog[1].call.force >= 0
  /\ backup_dirs # <<>>
  /\ client_keys # kenv.keys
  /\ Len(client_keys) = Len(kenv.keys)
  /\ ActiveIds(client_keys) # ActiveIds(kenv.keys)

\* ---- C39 ----

\* the lines of a keystore that carry the manager's id
ManagerLines(lines) == {k \in 1..Len(lines) : lines[k][1] = ManagerId}

\* the enroll calls, ended or running, that supplied an id padded to "000"
SuppliedManagerId ==
  {c \in {klog[j].call : j \in 1..Len(klog)} \cup {proc[p].call : p \in DOMAIN proc} :
     c.kind = "enroll" /\ c.id # <<>> /\ zfill3(c.id) = ManagerId}

\* C39: no enroll on the local path writes a keystore entry with the
\* manager's id "000", whether the id is assigned by the scan or supplied by
\* the caller as "0", "00" or "000".
C39_Claimed == ManagerLines(client_keys) = {}

\* an id assigned by the scan is never "000": an entry "000" only comes from
\* a call that supplied it
C39_AutoNeverManager ==
  /\ ManagerLines(client_keys) # {} => SuppliedManagerId # {}
  /\ \A j \in 1..Len(klog) :
       (klog[j].call.kind = "enroll" /\ klog[j].call.id = <<>>
          /\ klog[j].result.kind = "return") => klog[j].result.value # ManagerId

\* the enroll with the supplied id "0" returned and its entry "000" is in the
\* keystore
C39_ManagerEntryWritten ==
  /\ SingleCall /\ Len(klog) = 1
  /\ klog[1].call.kind = "enroll" /\ klog[1].call.id = <<"0">>
  /\ klog[1].result.kind = "return"
  /\ ManagerLines(client_keys) # {}
  /\ ManagerLines(kenv.keys) = {}

\* ---- C40 ----

\* the callers whose call has ended while the keystore lock is still theirs
HoldsAfterExit == {p \in DOMAIN proc : proc[p].pc = "idle" /\ api_lock = p}

\* C40: the keystore lock taken by a local enroll is released on every exit
\* path of the call, the failure to open the keystore included, so no caller
\* that has returned or raised still holds it.
C40_Claimed == HoldsAfterExit = {}

\* on every exit path but the failed open of the keystore the lock is
\* released when the call ends
C40_ReleasedUnlessOpenFails == kenv.fault # "open" => HoldsAfterExit = {}

\* the enroll of caller 1 raised on the open of the keystore and still holds
\* the lock, on which the enroll of caller 2 waits
C40_BlockedByEndedCall ==
  /\ Len(klog) >= 1
  /\ klog[1].p = 1 /\ klog[1].call.kind = "enroll"
  /\ klog[1].result.kind = "raise" /\ klog[1].result.exc = "OSError"
  /\ proc[1].pc = "idle" /\ todo[1] = <<>>
  /\ api_lock = 1
  /\ proc[2].pc = "add_lock"

====
